---- MODULE Spec2Model ----
(***************************************************************************)
(* Graph construction and cross-reference resolution of process_document   *)
(* (src/run_processing.py): node mapping, reference resolution, batched    *)
(* fuzzy lookups, the embedding gate, clear-then-insert persistence and    *)
(* the materialisation of parent links and reference rows.                 *)
(*                                                                         *)
(* Strings are sequences of tokens: a title is a one-token string, " > "   *)
(* is one token, "%" is the wildcard token of a path pattern.  Storage     *)
(* ids are positive integers; 0 stands for None and for a falsy chunk id.  *)
(* Strengths are in tenths (0.9 is 9).                                     *)
(***************************************************************************)
EXTENDS Integers, Sequences, FiniteSets, TLC

VARIABLES db, run

vars == <<db, run>>

(* ------------------------------ bounds -------------------------------- *)

MaxChunks == 2

MaxMentions == 2

MaxPrior == 1

MaxFailures == 2

(* ----------------------------- constants ------------------------------ *)

MaxResults == 10

ExactStrength == 9

FuzzyStrength == 7

NoneVal == 0

SEP == " > "

WILD == "%"

UnknownPath == <<"Unknown Path">>

ExactType == "related_section_exact"

FuzzyType == "related_section_fuzzy"

(* ------------------------------ strings ------------------------------- *)

RECURSIVE JoinFrom(_, _)
JoinFrom(titles, i) ==
    IF i > Len(titles) THEN <<>>
    ELSE IF i = Len(titles) THEN titles[i]
    ELSE titles[i] \o <<SEP>> \o JoinFrom(titles, i + 1)

\* " > ".join(map(str, titles))
Join(titles) == JoinFrom(titles, 1)

\* f"%{path_pattern}%"
WrapPattern(key) == <<WILD>> \o key \o <<WILD>>

RECURSIVE Like(_, _)
\* the store's pattern match: "%" matches any run of tokens
Like(pat, s) ==
    IF pat = <<>> THEN s = <<>>
    ELSE IF Head(pat) = WILD
         THEN \E i \in 0..Len(s) : Like(Tail(pat), SubSeq(s, i + 1, Len(s)))
         ELSE /\ s # <<>>
              /\ Head(s) = Head(pat)
              /\ Like(Tail(pat), Tail(s))

Substring(key, s) ==
    \E i \in 0..(Len(s) - Len(key)) : SubSeq(s, i + 1, i + Len(key)) = key

(* ------------------------- insertion-ordered dict --------------------- *)

DictKeys(d) == {d[i].k : i \in 1..Len(d)}

DictValues(d) == {d[i].v : i \in 1..Len(d)}

DictHas(d, key) == key \in DictKeys(d)

DictGet(d, key) == (CHOOSE i \in 1..Len(d) : d[i].k = key)

DictVal(d, key) == d[DictGet(d, key)].v

\* d[key] = val: an existing key keeps its position
DictSet(d, key, val) ==
    IF DictHas(d, key)
    THEN [i \in 1..Len(d) |-> IF d[i].k = key THEN [k |-> key, v |-> val] ELSE d[i]]
    ELSE Append(d, [k |-> key, v |-> val])

\* d.get(key), None when absent
DictGetOrNone(d, key) == IF DictHas(d, key) THEN DictVal(d, key) ELSE NoneVal

(* ------------------------------- inputs ------------------------------- *)

TitleA == <<"a">>

TitleB == <<"b">>

ListMention(titles) == [kind |-> "list", titles |-> titles, text |-> <<>>]

StrMention(text) == [kind |-> "str", titles |-> <<>>, text |-> text]

OtherMention == [kind |-> "other", titles |-> <<>>, text |-> <<>>]

HierarchyPaths == {<<>>, <<TitleA>>, <<TitleA, TitleB>>, <<UnknownPath>>}

Mentions ==
    {StrMention(TitleA), ListMention(<<TitleA, TitleB>>),
     StrMention(Join(<<TitleA, TitleB>>)), ListMention(<<UnknownPath>>),
     OtherMention}

RelatedOfLen(n) == [1..n -> Mentions]

RelatedUpTo(n) == UNION {RelatedOfLen(k) : k \in 0..n}

\* a chunk dict without the "metadata" key
NoMetadataChunk(i) ==
    [has_id |-> TRUE, id |-> i, has_metadata |-> FALSE, hierarchy_path |-> <<>>,
     parent_id |-> NoneVal, related_sections |-> <<>>]

\* a chunk dict without the "id" key
NoIdChunk ==
    [has_id |-> FALSE, id |-> NoneVal, has_metadata |-> TRUE,
     hierarchy_path |-> <<TitleA>>, parent_id |-> NoneVal,
     related_sections |-> <<ListMention(<<TitleA, TitleB>>)>>]

\* a chunk whose "id" is present and falsy
FalsyIdChunks ==
    [has_id : {TRUE}, id : {NoneVal}, has_metadata : {TRUE},
     hierarchy_path : {<<TitleA>>}, parent_id : {NoneVal},
     related_sections : {<<>>, <<ListMention(<<TitleA, TitleB>>)>>}]

\* the chunks that may stand at position i of the batch: a valid chunk has
\* id i and declares the chunk before it as its parent (the first declares none)
ChunksAt(i) ==
    [has_id : {TRUE}, id : {i}, has_metadata : {TRUE},
     hierarchy_path : HierarchyPaths, parent_id : {i - 1},
     related_sections : RelatedUpTo(MaxMentions)]
    \cup FalsyIdChunks \cup {NoMetadataChunk(i), NoIdChunk}

RECURSIVE MentionCount(_, _)
MentionCount(chunks, i) ==
    IF i > Len(chunks) THEN 0
    ELSE Len(chunks[i].related_sections) + MentionCount(chunks, i + 1)

RECURSIVE BatchesOfLen(_)
\* the batches of n chunks with at most MaxMentions mentions in all
BatchesOfLen(n) ==
    IF n = 0 THEN {<<>>}
    ELSE {b \in {Append(a, c) : a \in BatchesOfLen(n - 1), c \in ChunksAt(n)} :
            MentionCount(b, 1) <= MaxMentions}

Batches == UNION {BatchesOfLen(n) : n \in 0..MaxChunks}

DocIds == {"A", "B"}

NodeRow(id, doc, path, parent, emb) ==
    [id |-> id, document_id |-> doc, path |-> path, parent_id |-> parent,
     embedding_generated |-> emb]

\* the stores a run may start from: at most MaxPrior nodes with ids 1..k, of
\* this or another document, and no reference rows
PriorStores ==
    {[nodes |-> {NodeRow(i, f[i], Join(<<TitleA, TitleB>>), NoneVal, TRUE) : i \in DOMAIN f},
      refs |-> <<>>, issued |-> DOMAIN f] :
        f \in UNION {[1..k -> DocIds] : k \in 0..MaxPrior}}

(* ----------------------------- Node Mapper ---------------------------- *)

EmptyMap == [x \in {} |-> NoneVal]

MapPut(m, key, val) == (key :> val) @@ m

MapGetOrNone(m, key) == IF key \in DOMAIN m THEN m[key] ELSE NoneVal

\* path_str of a chunk
PathStr(chunk) ==
    IF chunk.hierarchy_path # <<>> THEN Join(chunk.hierarchy_path) ELSE UnknownPath

\* a validation that asks for the metadata payload only
IsValidChunk_MetadataOnly(chunk) == chunk.has_metadata

\* the chunk is kept by the validation at the head of the loop
IsValidChunk(chunk) == chunk.has_id /\ chunk.has_metadata

\* node_data of a chunk
NodeData(chunk, doc) ==
    [document_id |-> doc, path |-> PathStr(chunk), original_id |-> chunk.id,
     embedding_generated |-> FALSE]

\* the condition under which a chunk claims its path key
ClaimsPath(chunk) == PathStr(chunk) # UnknownPath /\ chunk.id # NoneVal

\* a mapping loop whose path index keeps the first chunk that claimed a key
MapChunk_FirstWriterWins(acc, chunk, doc) ==
    IF ~IsValidChunk(chunk) THEN acc
    ELSE [db_nodes_to_insert |-> Append(acc.db_nodes_to_insert, NodeData(chunk, doc)),
          original_id_to_chunk_map |-> DictSet(acc.original_id_to_chunk_map, chunk.id, chunk),
          path_to_original_id_map |->
              IF ClaimsPath(chunk) /\ PathStr(chunk) \notin DOMAIN acc.path_to_original_id_map
              THEN MapPut(acc.path_to_original_id_map, PathStr(chunk), chunk.id)
              ELSE acc.path_to_original_id_map]

\* a mapping loop that keeps a discarded chunk in original_id_to_chunk_map,
\* so that the resolver scans it
MapChunk_KeepsDiscarded(acc, chunk, doc) ==
    IF ~IsValidChunk(chunk)
    THEN [acc EXCEPT !.original_id_to_chunk_map = DictSet(@, chunk.id, chunk)]
    ELSE [db_nodes_to_insert |-> Append(acc.db_nodes_to_insert, NodeData(chunk, doc)),
          original_id_to_chunk_map |-> DictSet(acc.original_id_to_chunk_map, chunk.id, chunk),
          path_to_original_id_map |->
              IF ClaimsPath(chunk)
              THEN MapPut(acc.path_to_original_id_map, PathStr(chunk), chunk.id)
              ELSE acc.path_to_original_id_map]

\* one iteration of the mapping loop
MapChunk(acc, chunk, doc) ==
    IF ~IsValidChunk(chunk) THEN acc
    ELSE [db_nodes_to_insert |-> Append(acc.db_nodes_to_insert, NodeData(chunk, doc)),
          original_id_to_chunk_map |-> DictSet(acc.original_id_to_chunk_map, chunk.id, chunk),
          path_to_original_id_map |->
              IF ClaimsPath(chunk)
              THEN MapPut(acc.path_to_original_id_map, PathStr(chunk), chunk.id)
              ELSE acc.path_to_original_id_map]

RECURSIVE MapChunks_StopsAtInvalid(_, _, _, _)
\* a mapping loop that is left at the first chunk without an id or a metadata
\* payload
MapChunks_StopsAtInvalid(chunks, i, doc, acc) ==
    IF i > Len(chunks) \/ ~IsValidChunk(chunks[i]) THEN acc
    ELSE MapChunks_StopsAtInvalid(chunks, i + 1, doc, MapChunk(acc, chunks[i], doc))

RECURSIVE MapChunks(_, _, _, _)
MapChunks(chunks, i, doc, acc) ==
    IF i > Len(chunks) THEN acc
    ELSE MapChunks(chunks, i + 1, doc, MapChunk(acc, chunks[i], doc))

MapperStart ==
    [db_nodes_to_insert |-> <<>>, original_id_to_chunk_map |-> <<>>,
     path_to_original_id_map |-> EmptyMap]

(* -------------------------- Reference Resolver ------------------------ *)

\* the mention has one of the two shapes the resolver accepts
IsPathMention(mention) == mention.kind \in {"list", "str"}

\* a path key that is the mention's text, whatever its shape
PathKey_TextOnly(mention) == mention.text

\* path_key_str of a list or string mention
PathKey(mention) ==
    IF mention.kind = "list" THEN Join(mention.titles) ELSE mention.text

\* a resolver that records a hit on the source itself as an exact candidate
ResolveMention_KeepsSelf(acc, source, mention, path_map) ==
    IF ~IsPathMention(mention) THEN acc
    ELSE LET key == PathKey(mention)
             target == MapGetOrNone(path_map, key)
         IN IF target # NoneVal
            THEN [acc EXCEPT !.exact = Append(@, <<source, target>>)]
            ELSE [acc EXCEPT !.pending = @ \cup {key}]

\* one mention of one chunk
ResolveMention(acc, source, mention, path_map) ==
    IF ~IsPathMention(mention) THEN acc
    ELSE LET key == PathKey(mention)
             target == MapGetOrNone(path_map, key)
         IN IF target # NoneVal
            THEN IF source # target
                 THEN [acc EXCEPT !.exact = Append(@, <<source, target>>)]
                 ELSE acc
            ELSE [acc EXCEPT !.pending = @ \cup {key}]

RECURSIVE ResolveMentions(_, _, _, _, _)
ResolveMentions(acc, source, related, j, path_map) ==
    IF j > Len(related) THEN acc
    ELSE ResolveMentions(ResolveMention(acc, source, related[j], path_map),
                         source, related, j + 1, path_map)

RECURSIVE ResolveChunks(_, _, _, _)
ResolveChunks(acc, chunk_map, i, path_map) ==
    IF i > Len(chunk_map) THEN acc
    ELSE ResolveChunks(
             ResolveMentions(acc, chunk_map[i].k, chunk_map[i].v.related_sections, 1, path_map),
             chunk_map, i + 1, path_map)

ResolverStart == [exact |-> <<>>, pending |-> {}]

(* ------------------------------- the store ---------------------------- *)

NodeIds(store) == {n.id : n \in store.nodes}

RECURSIVE Perms(_)
\* the sequences that list every element of S once
Perms(S) ==
    IF S = {} THEN {<<>>}
    ELSE UNION {{<<x>> \o t : t \in Perms(S \ {x})} : x \in S}

Min(a, b) == IF a < b THEN a ELSE b

\* findNodesByPath(pattern, maxResults): the lists the store may return
FindNodesByPath(store, pattern, max_results) ==
    LET matches == {n \in store.nodes : Like(pattern, n.path)}
        kept == {S \in SUBSET matches : Cardinality(S) = Min(max_results, Cardinality(matches))}
    IN UNION {Perms(S) : S \in kept}

\* deleteNodesByDocumentId(document_id): the document's nodes go, and with
\* them the reference rows that start or end at one of them
DeleteNodesByDocumentId(store, doc) ==
    LET gone == {n.id : n \in {m \in store.nodes : m.document_id = doc}}
    IN [store EXCEPT
          !.nodes = {n \in @ : n.document_id # doc},
          !.refs = SelectSeq(@, LAMBDA row : row.source_node_id \notin gone
                                            /\ row.target_node_id \notin gone)]

MaxOf(S) == IF S = {} THEN 0 ELSE CHOOSE x \in S : \A y \in S : y <= x

\* the ids insertNode may assign: the next id of the sequence, or an id that
\* was issued before and is held by no node now
AssignableIds(store) ==
    {MaxOf(store.issued) + 1} \cup (store.issued \ NodeIds(store))

\* insertNode(record) -> storage_id
InsertNodeRow(store, node, id) ==
    [store EXCEPT
       !.nodes = @ \cup {NodeRow(id, node.document_id, node.path, NoneVal,
                                 node.embedding_generated)},
       !.issued = @ \cup {id}]

\* updateNodeParent(node_id, parent_id)
UpdateNodeParent(store, node_id, parent_id) ==
    [store EXCEPT
       !.nodes = {IF n.id = node_id THEN [n EXCEPT !.parent_id = parent_id] ELSE n : n \in @}]

RefRow(source, target, type, strength) ==
    [source_node_id |-> source, target_node_id |-> target, reference_type |-> type,
     strength |-> strength]

\* insertReference(row)
InsertReferenceRow(store, row) == [store EXCEPT !.refs = Append(@, row)]

(* ------------------------------ a run --------------------------------- *)

Procs == {1, 2}

NoResult == "<None>"

Pending == "<running>"

\* one external call, as the run made it; log and store_at_start record the
\* run's calls and the store it started from, and the code reads neither
Call(op, ok) ==
    [op |-> op, ok |-> ok, key |-> <<>>, source |-> NoneVal, target |-> NoneVal,
     type |-> "", strength |-> 0, max_results |-> 0, flag |-> FALSE, fresh |-> FALSE,
     returned |-> <<>>]

\* the locals of process_document at its entry into Phase 4, and of main,
\* which called it: main's position, the exit status once main has exited,
\* and whether one of its optional query steps raised
InitRun(chunks, doc) ==
    [pc |-> "start", document_id |-> doc, enriched_chunks |-> chunks,
     db_nodes_to_insert |-> <<>>, original_id_to_chunk_map |-> <<>>,
     path_to_original_id_map |-> EmptyMap, exact_resolved_references |-> <<>>,
     paths_needing_fuzzy_lookup |-> {}, lookup_todo |-> {},
     fuzzy_path_to_nodes_map |-> EmptyMap, fuzzy_lookup_errors |-> 0,
     db_nodes_with_embeddings |-> <<>>, original_id_to_db_id_map |-> <<>>,
     inserted_count |-> 0, failed_count |-> 0, idx |-> 1,
     parent_links_set |-> 0, references_created |-> 0, parent_link_errors |-> 0,
     reference_errors |-> 0, inserted_reference_pairs |-> {},
     result |-> Pending, log |-> <<>>, store_at_start |-> [nodes |-> {}, refs |-> <<>>],
     main_pc |-> "call", exit_status |-> 0, query_raised |-> FALSE]

IdleRun == [InitRun(<<>>, "A") EXCEPT !.pc = "idle"]

Logged(r, call) == [r EXCEPT !.log = Append(@, call)]

\* return value
Returned(r, value) == [r EXCEPT !.pc = "done", !.result = value]

\* the mapping loop without the empty-batch return
PrepareNodesStep_NoEarlyReturn(r) ==
    LET m == MapChunks(r.enriched_chunks, 1, r.document_id, MapperStart)
    IN [r EXCEPT !.db_nodes_to_insert = m.db_nodes_to_insert,
                 !.original_id_to_chunk_map = m.original_id_to_chunk_map,
                 !.path_to_original_id_map = m.path_to_original_id_map,
                 !.pc = "resolve"]

(* lines 159-237: the mapping loop and the empty-batch return *)
PrepareNodesStep(r) ==
    LET m == MapChunks(r.enriched_chunks, 1, r.document_id, MapperStart)
        r1 == [r EXCEPT !.db_nodes_to_insert = m.db_nodes_to_insert,
                        !.original_id_to_chunk_map = m.original_id_to_chunk_map,
                        !.path_to_original_id_map = m.path_to_original_id_map]
    IN IF m.db_nodes_to_insert = <<>>
       THEN Returned(r1, r.document_id)
       ELSE [r1 EXCEPT !.pc = "resolve"]

(* lines 243-274: exact resolution and the pending fuzzy set *)
ResolveReferencesStep(r) ==
    LET acc == ResolveChunks(ResolverStart, r.original_id_to_chunk_map, 1,
                             r.path_to_original_id_map)
    IN [r EXCEPT !.exact_resolved_references = acc.exact,
                 !.paths_needing_fuzzy_lookup = acc.pending,
                 !.lookup_todo = acc.pending,
                 !.pc = IF acc.pending = {} THEN "embed" ELSE "fuzzy"]

\* a filter that keeps every candidate of the raw result
FilterToDocument_KeepAll(target_nodes_raw, doc) == target_nodes_raw

\* the candidates of a raw result that belong to the run's document
FilterToDocument(target_nodes_raw, doc) ==
    SelectSeq(target_nodes_raw, LAMBDA node : node.document_id = doc)

\* a lookup loop that is left at the first find_nodes_by_path call that raises
FuzzyLookupStep_StopsOnFailure(r, key, ok, target_nodes_raw) ==
    LET filtered == FilterToDocument(target_nodes_raw, r.document_id)
        todo == IF ok THEN r.lookup_todo \ {key} ELSE {}
        r1 == Logged(r, [Call("find_nodes_by_path", ok) EXCEPT
                           !.key = WrapPattern(key), !.max_results = MaxResults,
                           !.returned = target_nodes_raw])
        r2 == IF ~ok
              THEN [r1 EXCEPT !.fuzzy_lookup_errors = @ + 1]
              ELSE IF target_nodes_raw # <<>> /\ filtered # <<>>
                   THEN [r1 EXCEPT !.fuzzy_path_to_nodes_map = MapPut(@, key, filtered)]
                   ELSE r1
    IN [r2 EXCEPT !.lookup_todo = todo,
                  !.pc = IF todo = {} THEN "embed" ELSE "fuzzy"]

(* lines 283-307: one iteration of the lookup loop *)
FuzzyLookupStep(r, key, ok, target_nodes_raw) ==
    LET filtered == FilterToDocument(target_nodes_raw, r.document_id)
        todo == r.lookup_todo \ {key}
        r1 == Logged(r, [Call("find_nodes_by_path", ok) EXCEPT
                           !.key = WrapPattern(key), !.max_results = MaxResults,
                           !.returned = target_nodes_raw])
        r2 == IF ~ok
              THEN [r1 EXCEPT !.fuzzy_lookup_errors = @ + 1]
              ELSE IF target_nodes_raw # <<>> /\ filtered # <<>>
                   THEN [r1 EXCEPT !.fuzzy_path_to_nodes_map = MapPut(@, key, filtered)]
                   ELSE r1
    IN [r2 EXCEPT !.lookup_todo = todo,
                  !.pc = IF todo = {} THEN "embed" ELSE "fuzzy"]

\* generateNodeEmbeddings: same length and order, each record flagged
WithEmbeddings(nodes, flags) ==
    [i \in 1..Len(nodes) |-> [nodes[i] EXCEPT !.embedding_generated = flags[i]]]

\* an embedding step that goes on to the clear step when the call raises,
\* with the records as the mapper left them
GenerateEmbeddingsStep_GoesOn(r, ok, flags) ==
    LET r1 == Logged(r, Call("generate_node_embeddings", ok))
    IN [r1 EXCEPT !.db_nodes_with_embeddings =
                      IF ok THEN WithEmbeddings(r.db_nodes_to_insert, flags)
                      ELSE r.db_nodes_to_insert,
                  !.pc = "clear"]

(* lines 314-336: the embedding call; a raise is fatal *)
GenerateEmbeddingsStep(r, ok, flags) ==
    LET r1 == Logged(r, Call("generate_node_embeddings", ok))
    IN IF ~ok
       THEN Returned(r1, NoResult)
       ELSE [r1 EXCEPT !.db_nodes_with_embeddings = WithEmbeddings(r.db_nodes_to_insert, flags),
                       !.pc = "clear"]

\* a clear step that ends the run with None when the store call raises
ClearExistingStep_FailsRun(r, ok) ==
    IF ok
    THEN [Logged(r, Call("delete_nodes_by_document_id", ok)) EXCEPT
             !.pc = "insert", !.idx = 1]
    ELSE Returned(Logged(r, Call("delete_nodes_by_document_id", ok)), NoResult)

\* a clear step that, when the store call raises, stays where it is and makes
\* the call again
ClearExistingStep_RetriesOnFailure(r, ok) ==
    IF ok
    THEN [Logged(r, Call("delete_nodes_by_document_id", ok)) EXCEPT
             !.pc = "insert", !.idx = 1]
    ELSE Logged(r, Call("delete_nodes_by_document_id", ok))

(* lines 343-363: the clear step; a raise is logged and the run goes on *)
ClearExistingStep(r, ok) ==
    [Logged(r, Call("delete_nodes_by_document_id", ok)) EXCEPT
        !.pc = "insert", !.idx = 1]

\* a gate that lets every record through, whatever its original_id
LacksOriginalId_Never(node) == FALSE

\* the record is skipped for a missing original_id
LacksOriginalId(node) == node.original_id = NoneVal

\* the record is skipped because its embedding failed
LacksEmbedding(node) == ~node.embedding_generated

\* a gate that asks for the original_id only
IsGated_NoEmbeddingCheck(node) == ~LacksOriginalId(node)

\* the record reaches db.insert_node
IsGated(node) == ~LacksOriginalId(node) /\ ~LacksEmbedding(node)

\* an insert loop that skips a record without counting it as failed
InsertNodeStep_SkipsUncounted(r, ok, db_id, fresh) ==
    LET node == r.db_nodes_with_embeddings[r.idx]
        r1 == [r EXCEPT !.idx = @ + 1]
    IN IF ~IsGated(node)
       THEN r1
       ELSE LET r2 == Logged(r1, [Call("insert_node", ok) EXCEPT
                                    !.source = node.original_id,
                                    !.target = IF ok THEN db_id ELSE NoneVal,
                                    !.flag = node.embedding_generated,
                                    !.fresh = ok /\ fresh])
            IN IF ok
               THEN [r2 EXCEPT !.original_id_to_db_id_map = DictSet(@, node.original_id, db_id),
                               !.inserted_count = @ + 1]
               ELSE [r2 EXCEPT !.failed_count = @ + 1]

\* an insert loop that stops at the first insert_node call that raises
InsertNodeStep_StopsOnFailure(r, ok, db_id, fresh) ==
    LET node == r.db_nodes_with_embeddings[r.idx]
        r1 == [r EXCEPT !.idx = @ + 1]
    IN IF ~IsGated(node)
       THEN [r1 EXCEPT !.failed_count = @ + 1]
       ELSE LET r2 == Logged(r1, [Call("insert_node", ok) EXCEPT
                                    !.source = node.original_id,
                                    !.target = IF ok THEN db_id ELSE NoneVal,
                                    !.flag = node.embedding_generated,
                                    !.fresh = ok /\ fresh])
            IN IF ok
               THEN [r2 EXCEPT !.original_id_to_db_id_map = DictSet(@, node.original_id, db_id),
                               !.inserted_count = @ + 1]
               ELSE [r2 EXCEPT !.failed_count = @ + 1,
                               !.idx = Len(r.db_nodes_with_embeddings) + 1]

\* an insert loop that writes the map entry before the store call, so that
\* the entry stays when the call raises
InsertNodeStep_MapsBeforeInsert(r, ok, db_id, fresh) ==
    LET node == r.db_nodes_with_embeddings[r.idx]
        r1 == [r EXCEPT !.idx = @ + 1]
    IN IF ~IsGated(node)
       THEN [r1 EXCEPT !.failed_count = @ + 1]
       ELSE LET r2 == Logged(r1, [Call("insert_node", ok) EXCEPT
                                    !.source = node.original_id,
                                    !.target = IF ok THEN db_id ELSE NoneVal,
                                    !.flag = node.embedding_generated,
                                    !.fresh = ok /\ fresh])
                r3 == [r2 EXCEPT !.original_id_to_db_id_map =
                                     DictSet(@, node.original_id, db_id)]
            IN IF ok
               THEN [r3 EXCEPT !.inserted_count = @ + 1]
               ELSE [r3 EXCEPT !.failed_count = @ + 1]

(* lines 365-397: one iteration of the insert loop *)
InsertNodeStep(r, ok, db_id, fresh) ==
    LET node == r.db_nodes_with_embeddings[r.idx]
        r1 == [r EXCEPT !.idx = @ + 1]
    IN IF ~IsGated(node)
       THEN [r1 EXCEPT !.failed_count = @ + 1]
       ELSE LET r2 == Logged(r1, [Call("insert_node", ok) EXCEPT
                                    !.source = node.original_id,
                                    !.target = IF ok THEN db_id ELSE NoneVal,
                                    !.flag = node.embedding_generated,
                                    !.fresh = ok /\ fresh])
            IN IF ok
               THEN [r2 EXCEPT !.original_id_to_db_id_map = DictSet(@, node.original_id, db_id),
                               !.inserted_count = @ + 1]
               ELSE [r2 EXCEPT !.failed_count = @ + 1]

\* a zero-insert check that is fatal only when nothing was skipped or failed
NothingInserted_NoFailures(r) == r.inserted_count = 0 /\ r.failed_count = 0

\* the run is fatal after the insert loop
NothingInserted(r) == r.inserted_count = 0 /\ r.failed_count > 0

(* ----------------------- Relationship Materializer -------------------- *)

\* the work list of the fuzzy pass, in loop order: one entry per chunk of
\* original_id_to_chunk_map with a storage id, per list-or-string mention
\* whose key is in fuzzy_path_to_nodes_map, per candidate node of that key
RECURSIVE FuzzyTargets(_, _, _, _)
FuzzyTargets(source_db_id, key, target_nodes, t) ==
    IF t > Len(target_nodes) THEN <<>>
    ELSE <<[source_db_id |-> source_db_id, key |-> key, target_node |-> target_nodes[t]]>>
         \o FuzzyTargets(source_db_id, key, target_nodes, t + 1)

RECURSIVE FuzzyMentions(_, _, _, _)
FuzzyMentions(r, source_db_id, related, j) ==
    IF j > Len(related) THEN <<>>
    ELSE (IF IsPathMention(related[j])
             /\ PathKey(related[j]) \in DOMAIN r.fuzzy_path_to_nodes_map
          THEN FuzzyTargets(source_db_id, PathKey(related[j]),
                            r.fuzzy_path_to_nodes_map[PathKey(related[j])], 1)
          ELSE <<>>)
         \o FuzzyMentions(r, source_db_id, related, j + 1)

RECURSIVE FuzzyChunks(_, _)
FuzzyChunks(r, i) ==
    IF i > Len(r.original_id_to_chunk_map) THEN <<>>
    ELSE LET source_db_id == DictGetOrNone(r.original_id_to_db_id_map,
                                           r.original_id_to_chunk_map[i].k)
         IN (IF source_db_id = NoneVal THEN <<>>
             ELSE FuzzyMentions(r, source_db_id,
                                r.original_id_to_chunk_map[i].v.related_sections, 1))
            \o FuzzyChunks(r, i + 1)

FuzzyWork(r) == FuzzyChunks(r, 1)

\* a materializer that runs the fuzzy pass before the exact pass
Advance_FuzzyFirst(r) ==
    LET r1 == IF r.pc = "parents" /\ r.idx > Len(r.original_id_to_db_id_map)
              THEN [r EXCEPT !.pc = "fuzzyrefs", !.idx = 1] ELSE r
        r2 == IF r1.pc = "fuzzyrefs" /\ r1.idx > Len(FuzzyWork(r1))
              THEN [r1 EXCEPT !.pc = "exact", !.idx = 1] ELSE r1
    IN IF r2.pc = "exact" /\ r2.idx > Len(r2.exact_resolved_references)
       THEN [r2 EXCEPT !.pc = "return"] ELSE r2

\* the position after a loop iteration: a finished loop is left for the next
Advance(r) ==
    LET r1 == IF r.pc = "parents" /\ r.idx > Len(r.original_id_to_db_id_map)
              THEN [r EXCEPT !.pc = "exact", !.idx = 1] ELSE r
        r2 == IF r1.pc = "exact" /\ r1.idx > Len(r1.exact_resolved_references)
              THEN [r1 EXCEPT !.pc = "fuzzyrefs", !.idx = 1] ELSE r1
    IN IF r2.pc = "fuzzyrefs" /\ r2.idx > Len(FuzzyWork(r2))
       THEN [r2 EXCEPT !.pc = "return"] ELSE r2

(* lines 399-420: the zero-insert check and the counters of the last phase *)
CheckInsertedStep(r) ==
    IF NothingInserted(r) THEN Returned(r, NoResult)
    ELSE Advance([r EXCEPT !.pc = "parents", !.idx = 1])

\* the parent of the chunk, when it is declared and was inserted
HasInsertedParent(r, original_parent_id) ==
    original_parent_id # NoneVal /\ DictHas(r.original_id_to_db_id_map, original_parent_id)

\* a parent-link loop that stops at the first update_node_parent call that raises
SetParentLinkStep_StopsOnFailure(r, ok) ==
    LET entry == r.original_id_to_db_id_map[r.idx]
        r1 == [r EXCEPT !.idx = @ + 1]
    IN IF ~DictHas(r.original_id_to_chunk_map, entry.k) THEN Advance(r1)
       ELSE LET original_parent_id == DictVal(r.original_id_to_chunk_map, entry.k).parent_id
            IN IF ~HasInsertedParent(r, original_parent_id) THEN Advance(r1)
               ELSE LET db_parent_id == DictVal(r.original_id_to_db_id_map, original_parent_id)
                        r2 == Logged(r1, [Call("update_node_parent", ok) EXCEPT
                                            !.source = entry.v, !.target = db_parent_id])
                    IN Advance(IF ok THEN [r2 EXCEPT !.parent_links_set = @ + 1]
                                     ELSE [r2 EXCEPT !.parent_link_errors = @ + 1,
                                                     !.idx = Len(r.original_id_to_db_id_map) + 1])

(* lines 424-441: one iteration of the parent-link loop *)
SetParentLinkStep(r, ok) ==
    LET entry == r.original_id_to_db_id_map[r.idx]
        r1 == [r EXCEPT !.idx = @ + 1]
    IN IF ~DictHas(r.original_id_to_chunk_map, entry.k) THEN Advance(r1)
       ELSE LET original_parent_id == DictVal(r.original_id_to_chunk_map, entry.k).parent_id
            IN IF ~HasInsertedParent(r, original_parent_id) THEN Advance(r1)
               ELSE LET db_parent_id == DictVal(r.original_id_to_db_id_map, original_parent_id)
                        r2 == Logged(r1, [Call("update_node_parent", ok) EXCEPT
                                            !.source = entry.v, !.target = db_parent_id])
                    IN Advance(IF ok THEN [r2 EXCEPT !.parent_links_set = @ + 1]
                                     ELSE [r2 EXCEPT !.parent_link_errors = @ + 1])

\* both ends were inserted and differ
ExactEndsOk(source_db_id, target_db_id) ==
    source_db_id # NoneVal /\ target_db_id # NoneVal /\ source_db_id # target_db_id

\* a pair check that ignores inserted_reference_pairs
PairIsNew_Always(r, ref_pair) == TRUE

\* the pair has no row of this run yet
PairIsNew(r, ref_pair) == ref_pair \notin r.inserted_reference_pairs

\* an attempt that never records its pair in inserted_reference_pairs
ReferenceAttempt_ForgetsPair(r, ok, source_db_id, target_db_id, type, strength) ==
    LET r1 == Logged(r, [Call("insert_reference", ok) EXCEPT
                           !.source = source_db_id, !.target = target_db_id,
                           !.type = type, !.strength = strength])
    IN IF ok
       THEN [r1 EXCEPT !.references_created = @ + 1]
       ELSE [r1 EXCEPT !.reference_errors = @ + 1]

\* an attempt whose failure ends the two reference passes
ReferenceAttempt_StopsOnFailure(r, ok, source_db_id, target_db_id, type, strength) ==
    LET r1 == Logged(r, [Call("insert_reference", ok) EXCEPT
                           !.source = source_db_id, !.target = target_db_id,
                           !.type = type, !.strength = strength])
    IN IF ok
       THEN [r1 EXCEPT !.references_created = @ + 1,
                       !.inserted_reference_pairs = @ \cup {<<source_db_id, target_db_id>>}]
       ELSE [r1 EXCEPT !.reference_errors = @ + 1, !.pc = "return"]

\* try: db.insert_reference(...) with its bookkeeping
ReferenceAttempt(r, ok, source_db_id, target_db_id, type, strength) ==
    LET r1 == Logged(r, [Call("insert_reference", ok) EXCEPT
                           !.source = source_db_id, !.target = target_db_id,
                           !.type = type, !.strength = strength])
    IN IF ok
       THEN [r1 EXCEPT !.references_created = @ + 1,
                       !.inserted_reference_pairs = @ \cup {<<source_db_id, target_db_id>>}]
       ELSE [r1 EXCEPT !.reference_errors = @ + 1]

\* an exact pass that writes its rows with the type and strength of the fuzzy pass
ExactReferenceStep_FuzzyTyped(r, ok) ==
    LET pair == r.exact_resolved_references[r.idx]
        source_db_id == DictGetOrNone(r.original_id_to_db_id_map, pair[1])
        target_db_id == DictGetOrNone(r.original_id_to_db_id_map, pair[2])
        r1 == [r EXCEPT !.idx = @ + 1]
    IN IF ExactEndsOk(source_db_id, target_db_id)
          /\ PairIsNew(r, <<source_db_id, target_db_id>>)
       THEN Advance(ReferenceAttempt(r1, ok, source_db_id, target_db_id,
                                     FuzzyType, FuzzyStrength))
       ELSE Advance(r1)

(* lines 446-468: one iteration of the exact pass *)
ExactReferenceStep(r, ok) ==
    LET pair == r.exact_resolved_references[r.idx]
        source_db_id == DictGetOrNone(r.original_id_to_db_id_map, pair[1])
        target_db_id == DictGetOrNone(r.original_id_to_db_id_map, pair[2])
        r1 == [r EXCEPT !.idx = @ + 1]
    IN IF ExactEndsOk(source_db_id, target_db_id)
          /\ PairIsNew(r, <<source_db_id, target_db_id>>)
       THEN Advance(ReferenceAttempt(r1, ok, source_db_id, target_db_id,
                                     ExactType, ExactStrength))
       ELSE Advance(r1)

\* a candidate check without the comparison with the source
FuzzyTargetOk_AllowsSource(r, target_db_id, source_db_id) ==
    /\ target_db_id # NoneVal
    /\ target_db_id \in DictValues(r.original_id_to_db_id_map)

\* a candidate check that takes any candidate id other than the source
FuzzyTargetOk_AnyCandidate(r, target_db_id, source_db_id) ==
    /\ target_db_id # NoneVal
    /\ target_db_id # source_db_id

\* the candidate is a node of this run and is not the source
FuzzyTargetOk(r, target_db_id, source_db_id) ==
    /\ target_db_id # NoneVal
    /\ target_db_id \in DictValues(r.original_id_to_db_id_map)
    /\ target_db_id # source_db_id

\* a fuzzy pass that does not look into inserted_reference_pairs
FuzzyReferenceStep_IgnoresPairs(r, ok) ==
    LET item == FuzzyWork(r)[r.idx]
        target_db_id == item.target_node.id
        r1 == [r EXCEPT !.idx = @ + 1]
    IN IF FuzzyTargetOk(r, target_db_id, item.source_db_id)
       THEN Advance(ReferenceAttempt(r1, ok, item.source_db_id, target_db_id,
                                     FuzzyType, FuzzyStrength))
       ELSE Advance(r1)

\* a fuzzy pass that writes its rows with the type and strength of the exact pass
FuzzyReferenceStep_ExactTyped(r, ok) ==
    LET item == FuzzyWork(r)[r.idx]
        target_db_id == item.target_node.id
        r1 == [r EXCEPT !.idx = @ + 1]
    IN IF FuzzyTargetOk(r, target_db_id, item.source_db_id)
          /\ PairIsNew(r, <<item.source_db_id, target_db_id>>)
       THEN Advance(ReferenceAttempt(r1, ok, item.source_db_id, target_db_id,
                                     ExactType, ExactStrength))
       ELSE Advance(r1)

(* lines 492-518: one candidate of one mention in the fuzzy pass *)
FuzzyReferenceStep(r, ok) ==
    LET item == FuzzyWork(r)[r.idx]
        target_db_id == item.target_node.id
        r1 == [r EXCEPT !.idx = @ + 1]
    IN IF FuzzyTargetOk(r, target_db_id, item.source_db_id)
          /\ PairIsNew(r, <<item.source_db_id, target_db_id>>)
       THEN Advance(ReferenceAttempt(r1, ok, item.source_db_id, target_db_id,
                                     FuzzyType, FuzzyStrength))
       ELSE Advance(r1)

\* the call the step makes, if it makes one
MakesCall(r, r2) == Len(r2.log) > Len(r.log)

(* ------------------------------- actions ------------------------------ *)

LastCall(r) == r.log[Len(r.log)]

\* the calls of the run that raised
Failures(r) == Cardinality({i \in 1..Len(r.log) : ~r.log[i].ok})

\* the outcomes an external call may have: at most MaxFailures calls of a
\* run raise
Outcomes(r) == IF Failures(r) < MaxFailures THEN BOOLEAN ELSE {TRUE}

\* the step of process p made a call and the call succeeded
Succeeded(r, r2) == MakesCall(r, r2) /\ LastCall(r2).ok

(* line 528 *)
ReturnStep(r) == Returned(r, r.document_id)

\* a function that makes its find_nodes_by_path calls after the insert loop
\* instead of before the embedding call
StepAt_LookupsAfterInserts(r, ok, choice) ==
    CASE r.pc = "start" -> PrepareNodesStep(r)
      [] r.pc = "resolve" -> [ResolveReferencesStep(r) EXCEPT !.pc = "embed"]
      [] r.pc = "fuzzy" ->
            LET f == FuzzyLookupStep(r, choice.key, ok, choice.raw)
            IN IF f.lookup_todo = {}
               THEN Advance([f EXCEPT !.pc = "parents", !.idx = 1])
               ELSE [f EXCEPT !.pc = "fuzzy"]
      [] r.pc = "embed" -> GenerateEmbeddingsStep(r, ok, choice.flags)
      [] r.pc = "clear" -> ClearExistingStep(r, ok)
      [] r.pc = "insert" ->
            IF r.idx <= Len(r.db_nodes_with_embeddings)
            THEN InsertNodeStep(r, ok, choice.db_id, choice.fresh)
            ELSE IF ~NothingInserted(r) /\ r.lookup_todo # {}
                 THEN [r EXCEPT !.pc = "fuzzy"]
                 ELSE CheckInsertedStep(r)
      [] r.pc = "parents" -> SetParentLinkStep(r, ok)
      [] r.pc = "exact" -> ExactReferenceStep(r, ok)
      [] r.pc = "fuzzyrefs" -> FuzzyReferenceStep(r, ok)
      [] r.pc = "return" -> ReturnStep(r)
      [] OTHER -> r

\* the code at the run's position, up to and including its next external
\* call (which succeeds or raises) or its return
StepAt(r, ok, choice) ==
    CASE r.pc = "start" -> PrepareNodesStep(r)
      [] r.pc = "resolve" -> ResolveReferencesStep(r)
      [] r.pc = "fuzzy" -> FuzzyLookupStep(r, choice.key, ok, choice.raw)
      [] r.pc = "embed" -> GenerateEmbeddingsStep(r, ok, choice.flags)
      [] r.pc = "clear" -> ClearExistingStep(r, ok)
      [] r.pc = "insert" ->
            IF r.idx <= Len(r.db_nodes_with_embeddings)
            THEN InsertNodeStep(r, ok, choice.db_id, choice.fresh)
            ELSE CheckInsertedStep(r)
      [] r.pc = "parents" -> SetParentLinkStep(r, ok)
      [] r.pc = "exact" -> ExactReferenceStep(r, ok)
      [] r.pc = "fuzzyrefs" -> FuzzyReferenceStep(r, ok)
      [] r.pc = "return" -> ReturnStep(r)
      [] OTHER -> r

NoChoice == [key |-> <<>>, raw |-> <<>>, flags |-> <<>>, db_id |-> NoneVal, fresh |-> FALSE]

\* the code at the run's position makes no external call
IsLocal(r, next) ==
    /\ r.pc \notin {"idle", "done", "fuzzy", "embed", "clear"}
    /\ ~MakesCall(r, next)

RECURSIVE RunLocal(_)
\* the run, taken through its local code to its next external call or its end
RunLocal(r) ==
    LET next == StepAt(r, TRUE, NoChoice)
    IN IF IsLocal(r, next) THEN RunLocal(next) ELSE r

\* one external call of the run with the local code that follows it
CallStep(r, ok, choice) == RunLocal(StepAt(r, ok, choice))

Start(p) ==
    /\ run[p].pc = "start"
    /\ run' = [run EXCEPT ![p] =
                 RunLocal([run[p] EXCEPT !.store_at_start = [nodes |-> db.nodes,
                                                             refs |-> db.refs]])]
    /\ UNCHANGED db

FuzzyLookup(p) ==
    /\ run[p].pc = "fuzzy"
    /\ \E key \in run[p].lookup_todo, ok \in Outcomes(run[p]) :
         \E raw \in (IF ok THEN FindNodesByPath(db, WrapPattern(key), MaxResults)
                           ELSE {<<>>}) :
            run' = [run EXCEPT ![p] =
                      CallStep(run[p], ok, [NoChoice EXCEPT !.key = key, !.raw = raw])]
    /\ UNCHANGED db

\* an embedding step that clears the document's nodes before it calls the
\* embedding provider
GenerateEmbeddings_ClearsFirst(p) ==
    /\ run[p].pc = "embed"
    /\ \E ok \in Outcomes(run[p]), flags \in [1..Len(run[p].db_nodes_to_insert) -> BOOLEAN] :
         run' = [run EXCEPT ![p] = CallStep(run[p], ok, [NoChoice EXCEPT !.flags = flags])]
    /\ db' = DeleteNodesByDocumentId(db, run[p].document_id)

GenerateEmbeddings(p) ==
    /\ run[p].pc = "embed"
    /\ \E ok \in Outcomes(run[p]), flags \in [1..Len(run[p].db_nodes_to_insert) -> BOOLEAN] :
         run' = [run EXCEPT ![p] = CallStep(run[p], ok, [NoChoice EXCEPT !.flags = flags])]
    /\ UNCHANGED db

\* a clear step whose store call deletes nothing
ClearExisting_KeepsNodes(p) ==
    /\ run[p].pc = "clear"
    /\ \E ok \in Outcomes(run[p]) :
         run' = [run EXCEPT ![p] = CallStep(run[p], ok, NoChoice)]
    /\ UNCHANGED db

\* a clear step whose store call deletes the nodes of every document
ClearExisting_AllDocuments(p) ==
    /\ run[p].pc = "clear"
    /\ \E ok \in Outcomes(run[p]) :
         /\ run' = [run EXCEPT ![p] = CallStep(run[p], ok, NoChoice)]
         /\ db' = IF ok THEN [db EXCEPT !.nodes = {}, !.refs = <<>>] ELSE db

ClearExisting(p) ==
    /\ run[p].pc = "clear"
    /\ \E ok \in Outcomes(run[p]) :
         /\ run' = [run EXCEPT ![p] = CallStep(run[p], ok, NoChoice)]
         /\ db' = IF ok THEN DeleteNodesByDocumentId(db, run[p].document_id) ELSE db

\* an insert loop that puts the store back as the run found it when the run
\* ends with None
InsertNode_RollsBack(p) ==
    /\ run[p].pc = "insert"
    /\ \E ok \in Outcomes(run[p]), db_id \in AssignableIds(db) :
         LET next == CallStep(run[p], ok, [NoChoice EXCEPT !.db_id = db_id,
                                                           !.fresh = db_id \notin db.issued])
         IN /\ run' = [run EXCEPT ![p] = next]
            /\ db' = IF next.pc = "done" /\ next.result = NoResult
                     THEN [db EXCEPT !.nodes = run[p].store_at_start.nodes,
                                     !.refs = run[p].store_at_start.refs]
                     ELSE IF ok
                          THEN InsertNodeRow(db, run[p].db_nodes_with_embeddings[run[p].idx], db_id)
                          ELSE db

InsertNode(p) ==
    /\ run[p].pc = "insert"
    /\ \E ok \in Outcomes(run[p]), db_id \in AssignableIds(db) :
         /\ run' = [run EXCEPT ![p] =
                      CallStep(run[p], ok, [NoChoice EXCEPT !.db_id = db_id,
                                                            !.fresh = db_id \notin db.issued])]
         /\ db' = IF ok
                  THEN InsertNodeRow(db, run[p].db_nodes_with_embeddings[run[p].idx], db_id)
                  ELSE db

SetParentLink(p) ==
    /\ run[p].pc = "parents"
    /\ \E ok \in Outcomes(run[p]) :
         LET call == LastCall(StepAt(run[p], ok, NoChoice))
         IN /\ run' = [run EXCEPT ![p] = CallStep(run[p], ok, NoChoice)]
            /\ db' = IF ok THEN UpdateNodeParent(db, call.source, call.target) ELSE db

\* the row of an insert_reference call
RowOf(call) == RefRow(call.source, call.target, call.type, call.strength)

ExactReference(p) ==
    /\ run[p].pc = "exact"
    /\ \E ok \in Outcomes(run[p]) :
         LET call == LastCall(StepAt(run[p], ok, NoChoice))
         IN /\ run' = [run EXCEPT ![p] = CallStep(run[p], ok, NoChoice)]
            /\ db' = IF ok THEN InsertReferenceRow(db, RowOf(call)) ELSE db

FuzzyReference(p) ==
    /\ run[p].pc = "fuzzyrefs"
    /\ \E ok \in Outcomes(run[p]) :
         LET call == LastCall(StepAt(run[p], ok, NoChoice))
         IN /\ run' = [run EXCEPT ![p] = CallStep(run[p], ok, NoChoice)]
            /\ db' = IF ok THEN InsertReferenceRow(db, RowOf(call)) ELSE db

Init ==
    /\ db \in PriorStores
    /\ \E chunks \in Batches :
         run = [p \in Procs |-> IF p = 1 THEN InitRun(chunks, "A") ELSE IdleRun]

Step(p) ==
    \/ Start(p)
    \/ FuzzyLookup(p)
    \/ GenerateEmbeddings(p)
    \/ ClearExisting(p)
    \/ InsertNode(p)
    \/ SetParentLink(p)
    \/ ExactReference(p)
    \/ FuzzyReference(p)

Next == \E p \in Procs : Step(p)

Spec == Init /\ [][Next]_vars

(* ------------- the same document processed a second time -------------- *)

\* the batches of the reprocessing runs: valid chunks with a path, whose
\* mentions are paths of the document
RerunBatches ==
    {b \in Batches :
        \A i \in 1..Len(b) :
            /\ IsValidChunk(b[i]) /\ b[i].id # NoneVal
            /\ b[i].hierarchy_path \in {<<TitleA>>, <<TitleA, TitleB>>}
            /\ \A j \in 1..Len(b[i].related_sections) :
                  b[i].related_sections[j]
                      \in {StrMention(TitleA), ListMention(<<TitleA, TitleB>>)}}

\* the stores of the reprocessing runs hold nodes of the document only
RerunStores == {s \in PriorStores : \A n \in s.nodes : n.document_id = "A"}

InitRerun ==
    /\ db \in RerunStores
    /\ \E chunks \in RerunBatches :
         run = [p \in Procs |-> IF p = 1 THEN InitRun(chunks, "A") ELSE IdleRun]

\* process_document is called again with the same file and document id
\* once the first call has returned
Rerun ==
    /\ run[1].pc = "done"
    /\ run[2].pc = "idle"
    /\ run' = [run EXCEPT ![2] = InitRun(run[1].enriched_chunks, run[1].document_id)]
    /\ UNCHANGED db

NextRerun == Next \/ Rerun

SpecRerun == InitRerun /\ [][NextRerun]_vars

(* ------------------------------ properties ---------------------------- *)

CallsOf(r, op) == {i \in 1..Len(r.log) : r.log[i].op = op}

OkCallsOf(r, op) == {i \in CallsOf(r, op) : r.log[i].ok}

IsDone(r) == r.pc = "done"

ReturnedId(r) == IsDone(r) /\ r.result = r.document_id

ReturnedNone(r) == IsDone(r) /\ r.result = NoResult

\* the rows of the store from source a to target b
RowsBetween(a, b) ==
    {i \in 1..Len(db.refs) : db.refs[i].source_node_id = a /\ db.refs[i].target_node_id = b}

\* no chunk of the batch has both an id and a metadata payload
NoValidChunk(r) ==
    \A i \in 1..Len(r.enriched_chunks) :
        ~(r.enriched_chunks[i].has_id /\ r.enriched_chunks[i].has_metadata)

\* C1: every node record handed to insert_node carries embedding_generated =
\* TRUE, every row a successful insert_node of the run created has the flag,
\* and no record whose flag is false has an insert_node call.
C1_EmbeddingGating ==
    \A p \in Procs :
        /\ \A i \in CallsOf(run[p], "insert_node") : run[p].log[i].flag
        /\ \A i \in OkCallsOf(run[p], "insert_node") :
              \A n \in db.nodes : n.id = run[p].log[i].target => n.embedding_generated
        /\ \A k \in 1..Len(run[p].db_nodes_with_embeddings) :
              ~run[p].db_nodes_with_embeddings[k].embedding_generated
              => \A i \in CallsOf(run[p], "insert_node") :
                    run[p].log[i].source # run[p].db_nodes_with_embeddings[k].original_id

\* a finished run that inserted a node and skipped another, with an id, whose
\* embedding failed
C1_Witness ==
    \E p \in Procs :
        /\ ReturnedId(run[p])
        /\ OkCallsOf(run[p], "insert_node") # {}
        /\ \E k \in 1..Len(run[p].db_nodes_with_embeddings) :
              /\ ~run[p].db_nodes_with_embeddings[k].embedding_generated
              /\ run[p].db_nodes_with_embeddings[k].original_id # NoneVal

\* C2: no reference row of the store, and no insert_reference call of a run,
\* has its source equal to its target.
C2_NoSelfEdges ==
    /\ \A i \in 1..Len(db.refs) : db.refs[i].source_node_id # db.refs[i].target_node_id
    /\ \A p \in Procs : \A i \in CallsOf(run[p], "insert_reference") :
          run[p].log[i].source # run[p].log[i].target

\* a finished run that wrote a row and whose fuzzy pass met a candidate that
\* is the source node itself
C2_Witness ==
    \E p \in Procs :
        /\ ReturnedId(run[p])
        /\ run[p].references_created >= 1
        /\ \E k \in 1..Len(FuzzyWork(run[p])) :
              FuzzyWork(run[p])[k].target_node.id = FuzzyWork(run[p])[k].source_db_id

\* C3: for every ordered pair (a, b) the store holds at most one reference
\* row from a to b.
C3_Dedup ==
    \A i, j \in 1..Len(db.refs) :
        (/\ db.refs[i].source_node_id = db.refs[j].source_node_id
         /\ db.refs[i].target_node_id = db.refs[j].target_node_id) => i = j

\* a finished run in which the exact pass and the fuzzy pass both found the
\* same pair, and the pair has its row
C3_Witness ==
    \E p \in Procs :
        /\ ReturnedId(run[p])
        /\ \E e \in 1..Len(run[p].exact_resolved_references), k \in 1..Len(FuzzyWork(run[p])) :
              LET pair == run[p].exact_resolved_references[e]
                  item == FuzzyWork(run[p])[k]
              IN /\ DictGetOrNone(run[p].original_id_to_db_id_map, pair[1]) = item.source_db_id
                 /\ DictGetOrNone(run[p].original_id_to_db_id_map, pair[2]) = item.target_node.id
                 /\ RowsBetween(item.source_db_id, item.target_node.id) # {}

\* C5: a run with a non-empty node-record list and no successful insert_node
\* returns None, and a run without a successful insert_node makes no
\* update_node_parent and no insert_reference call.
C5_AllInsertFailureFatal ==
    \A p \in Procs :
        OkCallsOf(run[p], "insert_node") = {}
        => /\ (IsDone(run[p]) /\ run[p].db_nodes_to_insert # <<>>) => ReturnedNone(run[p])
           /\ CallsOf(run[p], "update_node_parent") = {}
           /\ CallsOf(run[p], "insert_reference") = {}

\* a run that returned None after a successful clear and an insert_node call
\* that raised
C5_Witness ==
    \E p \in Procs :
        /\ ReturnedNone(run[p])
        /\ OkCallsOf(run[p], "delete_nodes_by_document_id") # {}
        /\ CallsOf(run[p], "insert_node") # {}
        /\ OkCallsOf(run[p], "insert_node") = {}

\* C6: a run whose batch has no chunk with both id and metadata is, once
\* started, finished with the document id and has made no external call.
C6_EmptyBatchShortCircuit ==
    \A p \in Procs :
        (run[p].pc \notin {"idle", "start"} /\ NoValidChunk(run[p]))
        => /\ ReturnedId(run[p])
           /\ run[p].log = <<>>

\* a finished run over a batch of two chunks, one without id and one without
\* metadata
C6_Witness ==
    \E p \in Procs :
        /\ IsDone(run[p])
        /\ NoValidChunk(run[p])
        /\ \E i, j \in 1..Len(run[p].enriched_chunks) :
              ~run[p].enriched_chunks[i].has_id /\ ~run[p].enriched_chunks[j].has_metadata

\* the nodes the store holds for the run's document
NodesOfDocument(r) == {n \in db.nodes : n.document_id = r.document_id}

\* the reference rows that start or end at a node of the run's document
RowsOfDocument(r) ==
    {i \in 1..Len(db.refs) :
        \E n \in NodesOfDocument(r) :
            n.id \in {db.refs[i].source_node_id, db.refs[i].target_node_id}}

\* C7 as claimed: after a run without a valid chunk the store holds no node
\* and no reference row of the document.
C7_ZeroChunkClaim ==
    \A p \in Procs :
        (IsDone(run[p]) /\ NoValidChunk(run[p]))
        => /\ ReturnedId(run[p])
           /\ NodesOfDocument(run[p]) = {}
           /\ RowsOfDocument(run[p]) = {}

\* C7 amended: a run without a valid chunk returns the document id, inserts
\* nothing and leaves the store as it found it.
C7_ZeroChunkStoreUntouched ==
    \A p \in Procs :
        (IsDone(run[p]) /\ NoValidChunk(run[p]))
        => /\ ReturnedId(run[p])
           /\ run[p].inserted_count = 0
           /\ db.nodes = run[p].store_at_start.nodes
           /\ db.refs = run[p].store_at_start.refs

\* a finished run without a valid chunk, over a store that held a node of
\* the document
C7_Witness ==
    \E p \in Procs :
        /\ IsDone(run[p])
        /\ run[p].enriched_chunks # <<>>
        /\ NoValidChunk(run[p])
        /\ \E n \in run[p].store_at_start.nodes : n.document_id = run[p].document_id

\* the chunk has a list-or-string mention with path key `key`
Mentions_Key(chunk, key) ==
    \E j \in 1..Len(chunk.related_sections) :
        /\ chunk.related_sections[j].kind \in {"list", "str"}
        /\ PathKey(chunk.related_sections[j]) = key

\* every storage id the run was given had never been issued before
FreshIds(r) == \A i \in OkCallsOf(r, "insert_node") : r.log[i].fresh

\* C8 as claimed (no external call raising, and a store that never issues an
\* id twice): after a run that returned its document id, every inserted
\* chunk with a mention whose key misses pathIndex and is a substring of the
\* path of a node stored for the document before the run has a fuzzy row of
\* strength 0.7 from its node to that node.
C8_FuzzyFallbackClaim ==
    \A p \in Procs :
        (ReturnedId(run[p]) /\ Failures(run[p]) = 0 /\ FreshIds(run[p]))
        => \A s \in 1..Len(run[p].original_id_to_chunk_map) :
              \A n \in run[p].store_at_start.nodes :
                 \A key \in {PathKey(m) : m \in {x \in Mentions : IsPathMention(x)}} :
                    (/\ DictHas(run[p].original_id_to_db_id_map,
                                run[p].original_id_to_chunk_map[s].k)
                     /\ Mentions_Key(run[p].original_id_to_chunk_map[s].v, key)
                     /\ key \notin DOMAIN run[p].path_to_original_id_map
                     /\ n.document_id = run[p].document_id
                     /\ Substring(key, n.path))
                    => \E i \in 1..Len(db.refs) :
                          db.refs[i] = RefRow(DictVal(run[p].original_id_to_db_id_map,
                                                      run[p].original_id_to_chunk_map[s].k),
                                              n.id, FuzzyType, FuzzyStrength)

\* C9: every candidate kept in fuzzy_path_to_nodes_map belongs to the run's
\* document, every key of the map has a non-empty list and is in the pending
\* set, and the target of every row the run wrote is a node of its document.
C9_CrossDocumentExclusion ==
    \A p \in Procs :
        /\ \A key \in DOMAIN run[p].fuzzy_path_to_nodes_map :
              /\ key \in run[p].paths_needing_fuzzy_lookup
              /\ run[p].fuzzy_path_to_nodes_map[key] # <<>>
              /\ \A t \in 1..Len(run[p].fuzzy_path_to_nodes_map[key]) :
                    run[p].fuzzy_path_to_nodes_map[key][t].document_id = run[p].document_id
        /\ \A i \in OkCallsOf(run[p], "insert_reference") :
              /\ \E n \in db.nodes : n.id = run[p].log[i].target
              /\ \A n \in db.nodes :
                    n.id = run[p].log[i].target => n.document_id = run[p].document_id

\* a finished run that wrote a row and one of whose lookups returned a node
\* of another document
C9_Witness ==
    \E p \in Procs :
        /\ ReturnedId(run[p])
        /\ OkCallsOf(run[p], "insert_reference") # {}
        /\ \E i \in OkCallsOf(run[p], "find_nodes_by_path") :
              \E t \in 1..Len(run[p].log[i].returned) :
                 run[p].log[i].returned[t].document_id # run[p].document_id

\* the chunks S (at s) and T (at t) of original_id_to_chunk_map to which C10
\* applies: both inserted, S mentions T's hierarchy_path as a list or as the
\* joined string, and T is the only chunk of the batch with that path
C10_Applies(r, s, t) ==
    LET S == r.original_id_to_chunk_map[s].v
        T == r.original_id_to_chunk_map[t].v
    IN /\ s # t
       /\ T.hierarchy_path # <<>>
       /\ DictHas(r.original_id_to_db_id_map, r.original_id_to_chunk_map[s].k)
       /\ DictHas(r.original_id_to_db_id_map, r.original_id_to_chunk_map[t].k)
       /\ \E j \in 1..Len(S.related_sections) :
             \/ S.related_sections[j] = ListMention(T.hierarchy_path)
             \/ S.related_sections[j] = StrMention(Join(T.hierarchy_path))
       /\ Cardinality({u \in 1..Len(r.enriched_chunks) :
                          r.enriched_chunks[u].hierarchy_path = T.hierarchy_path}) = 1

\* exactly one row from S's node to T's node, and it is the exact row
C10_OneExactRow(r, s, t) ==
    LET a == DictVal(r.original_id_to_db_id_map, r.original_id_to_chunk_map[s].k)
        b == DictVal(r.original_id_to_db_id_map, r.original_id_to_chunk_map[t].k)
    IN /\ Cardinality(RowsBetween(a, b)) = 1
       /\ \A i \in RowsBetween(a, b) : db.refs[i] = RefRow(a, b, ExactType, ExactStrength)

\* every valid chunk with a hierarchy_path has a node record whose path is
\* the titles joined with " > "
C10_PathsJoined(r) ==
    \A u \in 1..Len(r.enriched_chunks) :
        LET chunk == r.enriched_chunks[u]
        IN (chunk.has_id /\ chunk.has_metadata /\ chunk.hierarchy_path # <<>>)
           => \E k \in 1..Len(r.db_nodes_to_insert) :
                 /\ r.db_nodes_to_insert[k].original_id = chunk.id
                 /\ r.db_nodes_to_insert[k].path = Join(chunk.hierarchy_path)
                 /\ (chunk.hierarchy_path = <<TitleA, TitleB>>
                     => r.db_nodes_to_insert[k].path = <<"a", " > ", "b">>)

\* C10 as claimed: paths are joined, and for every such S and T the finished
\* run has written exactly one row from S to T, of type exact.
C10_ExactResolutionClaim ==
    \A p \in Procs :
        /\ run[p].pc \notin {"idle", "start"} => C10_PathsJoined(run[p])
        /\ ReturnedId(run[p])
           => \A s, t \in 1..Len(run[p].original_id_to_chunk_map) :
                 C10_Applies(run[p], s, t) => C10_OneExactRow(run[p], s, t)

\* the exact pass's insert_reference call for the pair of S and T raised
C10_ExactCallRaised(r, s, t) ==
    \E i \in CallsOf(r, "insert_reference") :
        /\ ~r.log[i].ok
        /\ r.log[i].type = ExactType
        /\ r.log[i].source = DictVal(r.original_id_to_db_id_map, r.original_id_to_chunk_map[s].k)
        /\ r.log[i].target = DictVal(r.original_id_to_db_id_map, r.original_id_to_chunk_map[t].k)

\* C10 amended: the same, for a T whose path key is not "Unknown Path" and
\* when no insert_reference call of the exact pass for the pair raised.
C10_ExactResolution ==
    \A p \in Procs :
        /\ run[p].pc \notin {"idle", "start"} => C10_PathsJoined(run[p])
        /\ ReturnedId(run[p])
           => \A s, t \in 1..Len(run[p].original_id_to_chunk_map) :
                 (/\ C10_Applies(run[p], s, t)
                  /\ Join(run[p].original_id_to_chunk_map[t].v.hierarchy_path) # UnknownPath
                  /\ ~C10_ExactCallRaised(run[p], s, t))
                 => C10_OneExactRow(run[p], s, t)

\* a finished run in which S mentions T's path both as a list and as the
\* joined string, and the pair has its one exact row
C10_Witness ==
    \E p \in Procs :
        /\ ReturnedId(run[p])
        /\ \E s, t \in 1..Len(run[p].original_id_to_chunk_map) :
              LET S == run[p].original_id_to_chunk_map[s].v
                  T == run[p].original_id_to_chunk_map[t].v
              IN /\ C10_Applies(run[p], s, t)
                 /\ Len(T.hierarchy_path) = 2
                 /\ \E j, k \in 1..Len(S.related_sections) :
                       /\ S.related_sections[j] = ListMention(T.hierarchy_path)
                       /\ S.related_sections[k] = StrMention(Join(T.hierarchy_path))
                 /\ C10_OneExactRow(run[p], s, t)

\* both calls of the reprocessing have returned the document id, no external
\* call of either raised, and the embedding provider flagged the records alike
C4_BothRunsAlike ==
    /\ ReturnedId(run[1]) /\ ReturnedId(run[2])
    /\ Failures(run[1]) = 0 /\ Failures(run[2]) = 0
    /\ run[1].db_nodes_with_embeddings = run[2].db_nodes_with_embeddings

\* the store holds as many nodes and as many reference rows of the document
\* as it held when the second call started
C4_SameCounts ==
    LET before == run[2].store_at_start
        nodes_before == {n \in before.nodes : n.document_id = run[2].document_id}
        rows_before ==
            {i \in 1..Len(before.refs) :
                \E n \in nodes_before :
                    n.id \in {before.refs[i].source_node_id, before.refs[i].target_node_id}}
    IN /\ Cardinality(NodesOfDocument(run[2])) = Cardinality(nodes_before)
       /\ Cardinality(RowsOfDocument(run[2])) = Cardinality(rows_before)

TwoChunkBatch ==
    <<[has_id |-> TRUE, id |-> 1, has_metadata |-> TRUE, hierarchy_path |-> <<TitleA>>,
       parent_id |-> NoneVal, related_sections |-> <<>>],
      [has_id |-> TRUE, id |-> 2, has_metadata |-> TRUE,
       hierarchy_path |-> <<TitleA, TitleB>>, parent_id |-> 1,
       related_sections |-> <<StrMention(TitleA)>>]>>

\* the embedding provider flagged every record of the run
AllFlagged(r) ==
    \A k \in 1..Len(r.db_nodes_with_embeddings) :
        r.db_nodes_with_embeddings[k].embedding_generated

\* a finished run of the two-chunk scenario: empty store, no call raised,
\* every record embedded
C11_Scenario(r) ==
    /\ IsDone(r)
    /\ r.enriched_chunks = TwoChunkBatch
    /\ r.store_at_start.nodes = {}
    /\ Failures(r) = 0
    /\ AllFlagged(r)

\* two nodes, the second a child of the first, and the one exact row
C11_Outcome(r) ==
    LET id1 == DictGetOrNone(r.original_id_to_db_id_map, 1)
        id2 == DictGetOrNone(r.original_id_to_db_id_map, 2)
    IN /\ ReturnedId(r)
       /\ r.inserted_count = 2 /\ r.failed_count = 0
       /\ Cardinality(OkCallsOf(r, "insert_node")) = 2
       /\ id1 # NoneVal /\ id2 # NoneVal /\ id1 # id2
       /\ db.nodes = {NodeRow(id1, r.document_id, Join(<<TitleA>>), NoneVal, TRUE),
                      NodeRow(id2, r.document_id, Join(<<TitleA, TitleB>>), id1, TRUE)}
       /\ r.parent_links_set = 1
       /\ \A i \in CallsOf(r, "update_node_parent") :
             r.log[i].source = id2 /\ r.log[i].target = id1
       /\ Cardinality(CallsOf(r, "update_node_parent")) = 1
       /\ r.references_created = 1
       /\ db.refs = <<RefRow(id2, id1, ExactType, ExactStrength)>>
       /\ CallsOf(r, "find_nodes_by_path") = {}

\* C11: the run of the two-chunk scenario returns the document id with two
\* nodes inserted, one parent link (chunk 2's node to chunk 1's), one exact
\* row of strength 0.9 from chunk 2's node to chunk 1's, and no fuzzy row.
C11_TwoChunkScenario == \A p \in Procs : C11_Scenario(run[p]) => C11_Outcome(run[p])

\* the two-chunk scenario has run to its end
C11_Witness == \E p \in Procs : C11_Scenario(run[p]) /\ C11_Outcome(run[p])

\* the generate_node_embeddings call of the run raised
EmbeddingCallRaised(r) ==
    \E i \in CallsOf(r, "generate_node_embeddings") : ~r.log[i].ok

\* C12: a run whose generate_node_embeddings call raised has returned None
\* with that call as its last, whatever its lookups did, and has left the
\* store's nodes alone; the call is made at most once; and a finished run
\* whose embedding call returned and that inserted a node has returned the
\* document id, whatever the records' flags.
C12_EmbeddingFailureFatal ==
    \A p \in Procs :
        /\ Cardinality(CallsOf(run[p], "generate_node_embeddings")) <= 1
        /\ EmbeddingCallRaised(run[p])
           => /\ ReturnedNone(run[p])
              /\ LastCall(run[p]).op = "generate_node_embeddings"
              /\ db.nodes = run[p].store_at_start.nodes
        /\ (IsDone(run[p]) /\ ~EmbeddingCallRaised(run[p]) /\ run[p].inserted_count >= 1)
           => ReturnedId(run[p])

\* a run whose embedding call raised after one lookup that returned
\* candidates and one that raised
C12_Witness ==
    \E p \in Procs :
        /\ EmbeddingCallRaised(run[p])
        /\ IsDone(run[p])
        /\ \E i \in CallsOf(run[p], "find_nodes_by_path") : ~run[p].log[i].ok
        /\ \E i \in OkCallsOf(run[p], "find_nodes_by_path") : run[p].log[i].returned # <<>>

\* the delete_nodes_by_document_id call of the run raised
ClearRaised(r) ==
    \E i \in CallsOf(r, "delete_nodes_by_document_id") : ~r.log[i].ok

\* the node records of the run that pass both checks of the insert loop
GatedRecords(r) ==
    {k \in 1..Len(r.db_nodes_with_embeddings) :
        /\ r.db_nodes_with_embeddings[k].original_id # NoneVal
        /\ r.db_nodes_with_embeddings[k].embedding_generated}

\* C13: a finished run that inserted at least one node has returned the
\* document id, whichever of its clear, lookup, insert, parent-link and
\* reference calls raised; and a finished run whose clear raised has made one
\* insert_node call for every gated node record.
C13_PartialFailuresNonFatal ==
    \A p \in Procs :
        /\ (IsDone(run[p]) /\ run[p].inserted_count >= 1) => ReturnedId(run[p])
        /\ (IsDone(run[p]) /\ ClearRaised(run[p]))
           => /\ Cardinality(CallsOf(run[p], "insert_node"))
                   = Cardinality(GatedRecords(run[p]))
              /\ \A k \in GatedRecords(run[p]) :
                    \E i \in CallsOf(run[p], "insert_node") :
                       run[p].log[i].source = run[p].db_nodes_with_embeddings[k].original_id

\* a run that returned the document id although its clear raised and one of
\* its later store calls raised, over a store that held a node of the document
C13_Witness ==
    \E p \in Procs :
        /\ ReturnedId(run[p])
        /\ ClearRaised(run[p])
        /\ run[p].inserted_count >= 1
        /\ \E i \in 1..Len(run[p].log) :
              /\ ~run[p].log[i].ok
              /\ run[p].log[i].op \in {"insert_node", "update_node_parent", "insert_reference"}
        /\ \E n \in db.nodes :
              n \in run[p].store_at_start.nodes /\ n.document_id = run[p].document_id

\* the phase of an external call, in the order the claim gives
PhaseOf(call) ==
    CASE call.op = "find_nodes_by_path" -> 1
      [] call.op = "generate_node_embeddings" -> 2
      [] call.op = "delete_nodes_by_document_id" -> 3
      [] call.op = "insert_node" -> 4
      [] call.op = "update_node_parent" -> 5
      [] call.op = "insert_reference" /\ call.type = ExactType -> 6
      [] call.op = "insert_reference" /\ call.type = FuzzyType -> 7
      [] OTHER -> 0

\* C14: the calls of a run are in phase order (lookups, the embedding call,
\* the clear, the inserts, the parent links, the exact rows, the fuzzy rows),
\* the embedding call and the clear are made at most once, and a run that has
\* made a call of a store-writing phase has made the embedding call and the
\* clear before it.
C14_PhaseOrdering ==
    \A p \in Procs :
        /\ \A i, j \in 1..Len(run[p].log) :
              i < j => /\ PhaseOf(run[p].log[i]) >= 1
                       /\ PhaseOf(run[p].log[i]) <= PhaseOf(run[p].log[j])
        /\ Cardinality(CallsOf(run[p], "generate_node_embeddings")) <= 1
        /\ Cardinality(CallsOf(run[p], "delete_nodes_by_document_id")) <= 1
        /\ \A j \in 1..Len(run[p].log) :
              /\ PhaseOf(run[p].log[j]) >= 3
                 => \E i \in 1..j : run[p].log[i].op = "generate_node_embeddings"
              /\ PhaseOf(run[p].log[j]) >= 4
                 => \E i \in 1..j : run[p].log[i].op = "delete_nodes_by_document_id"

\* a finished run that made a call of each of the seven phases
C14_Witness ==
    \E p \in Procs :
        /\ IsDone(run[p])
        /\ \A ph \in 1..7 : \E i \in 1..Len(run[p].log) : PhaseOf(run[p].log[i]) = ph

\* calls i and j of the run are insert_reference calls for the same ordered pair
SamePairCalls(r, i, j) ==
    /\ i \in CallsOf(r, "insert_reference") /\ j \in CallsOf(r, "insert_reference")
    /\ r.log[i].source = r.log[j].source
    /\ r.log[i].target = r.log[j].target

\* C15 as claimed: a run attempts insert_reference at most once for each
\* ordered pair, also when the first attempt raised.
C15_NoDuplicateAttemptsClaim ==
    \A p \in Procs : \A i, j \in 1..Len(run[p].log) :
        SamePairCalls(run[p], i, j) => i = j

\* C15 amended: a run makes a further insert_reference attempt for an ordered
\* pair only after every earlier attempt for the pair raised, so at most one
\* attempt per pair succeeds; inserted_reference_pairs holds the pairs whose
\* attempt succeeded, and no others.
C15_NoDuplicateSuccess ==
    \A p \in Procs :
        /\ \A i, j \in 1..Len(run[p].log) :
              (SamePairCalls(run[p], i, j) /\ i < j) => ~run[p].log[i].ok
        /\ run[p].inserted_reference_pairs
              = {<<run[p].log[i].source, run[p].log[i].target>> :
                    i \in OkCallsOf(run[p], "insert_reference")}

\* a finished run whose first attempt for a pair raised and whose second
\* attempt for the same pair wrote the row
C15_Witness ==
    \E p \in Procs :
        /\ ReturnedId(run[p])
        /\ \E i, j \in 1..Len(run[p].log) :
              /\ SamePairCalls(run[p], i, j)
              /\ i < j
              /\ ~run[p].log[i].ok
              /\ run[p].log[j].ok
              /\ RowsBetween(run[p].log[j].source, run[p].log[j].target) # {}

(* ------------- two documents processed at the same time --------------- *)

\* a batch with an exact mention (chunk 2 of chunk 1's path), a mention that
\* needs a lookup (chunk 1 of the path "a > b", which no chunk has) and a
\* parent link
MixedBatch ==
    <<[has_id |-> TRUE, id |-> 1, has_metadata |-> TRUE, hierarchy_path |-> <<TitleA>>,
       parent_id |-> NoneVal,
       related_sections |-> <<ListMention(<<TitleA, TitleB>>)>>],
      [has_id |-> TRUE, id |-> 2, has_metadata |-> TRUE, hierarchy_path |-> <<>>,
       parent_id |-> 1, related_sections |-> <<StrMention(TitleA)>>]>>

TwoDocBatches == {TwoChunkBatch, MixedBatch}

\* the stores of the two-document runs: empty, or one earlier node of each
\* document
TwoDocStores ==
    {[nodes |-> {}, refs |-> <<>>, issued |-> {}],
     [nodes |-> {NodeRow(1, "A", Join(<<TitleA, TitleB>>), NoneVal, TRUE),
                 NodeRow(2, "B", Join(<<TitleA, TitleB>>), NoneVal, TRUE)},
      refs |-> <<>>, issued |-> {1, 2}]}

\* process_document is running for document "A" and for document "B"; each
\* run's store_at_start is the store as it is now until the run starts
InitTwoDocs ==
    /\ db \in TwoDocStores
    /\ \E chunksA \in TwoDocBatches, chunksB \in {MixedBatch} :
         run = [p \in Procs |->
                  [InitRun(IF p = 1 THEN chunksA ELSE chunksB,
                           IF p = 1 THEN "A" ELSE "B")
                     EXCEPT !.store_at_start = [nodes |-> db.nodes, refs |-> db.refs]]]

SpecTwoDocs == InitTwoDocs /\ [][Next]_vars

\* the storage ids the run's successful insert_node calls returned
OwnIds(r) == {r.log[i].target : i \in OkCallsOf(r, "insert_node")}

\* the path of the run's node record with this original_id
RecordPath(r, original_id) ==
    LET k == CHOOSE k \in 1..Len(r.db_nodes_with_embeddings) :
                 r.db_nodes_with_embeddings[k].original_id = original_id
    IN r.db_nodes_with_embeddings[k].path

\* the parent the run's successful update_node_parent call gave the node
ParentSet(r, id) ==
    IF \E j \in OkCallsOf(r, "update_node_parent") : r.log[j].source = id
    THEN r.log[CHOOSE j \in OkCallsOf(r, "update_node_parent") : r.log[j].source = id].target
    ELSE NoneVal

\* the nodes of the run's document as the run's own calls leave them: the
\* earlier nodes until a clear succeeds, and one node per successful insert
ExpectedNodes(r) ==
    (IF OkCallsOf(r, "delete_nodes_by_document_id") # {} THEN {}
     ELSE {n \in r.store_at_start.nodes : n.document_id = r.document_id})
    \cup {NodeRow(r.log[i].target, r.document_id, RecordPath(r, r.log[i].source),
                  ParentSet(r, r.log[i].target), TRUE) :
             i \in OkCallsOf(r, "insert_node")}

\* the reference rows the run's successful insert_reference calls wrote
ExpectedRows(r) == {RowOf(r.log[i]) : i \in OkCallsOf(r, "insert_reference")}

\* the run returned None exactly when its own calls say so
ExpectedResult(r) ==
    ReturnedNone(r) <=> (EmbeddingCallRaised(r) \/ OkCallsOf(r, "insert_node") = {})

\* C16: with a run for document "A" and a run for document "B" interleaved
\* call by call, the nodes, parent pointers and reference rows of each
\* document are at every moment what the calls of its own run made them (what
\* they are when the run is alone), every parent link and reference row of a
\* run joins two nodes the run inserted, and each run's return value follows
\* from its own calls.
C16_DocumentIsolation ==
    \A p \in Procs :
        /\ NodesOfDocument(run[p]) = ExpectedNodes(run[p])
        /\ {db.refs[i] : i \in RowsOfDocument(run[p])} = ExpectedRows(run[p])
        /\ Cardinality(RowsOfDocument(run[p]))
              = Cardinality(OkCallsOf(run[p], "insert_reference"))
        /\ \A i \in CallsOf(run[p], "update_node_parent")
                       \cup CallsOf(run[p], "insert_reference") :
              /\ run[p].log[i].source \in OwnIds(run[p])
              /\ run[p].log[i].target \in OwnIds(run[p])
        /\ IsDone(run[p]) => ExpectedResult(run[p])

\* both runs have returned their document id and written a reference row,
\* over a store that held a node of each document, and the store gave a node
\* of "B" an id between the ids of two nodes of "A"
C16_Witness ==
    /\ ReturnedId(run[1]) /\ ReturnedId(run[2])
    /\ run[1].document_id # run[2].document_id
    /\ run[1].references_created >= 1 /\ run[2].references_created >= 1
    /\ run[1].store_at_start.nodes # {}
    /\ \E a1, a2 \in OwnIds(run[1]), b \in OwnIds(run[2]) : a1 < b /\ b < a2

(* ------------------------- the command line --------------------------- *)

\* `not processed_doc_id`
IsFalsyResult(value) == value \in {NoResult, ""}

(* lines 573-577: main looks at what process_document returned *)
CheckResultStep(r) ==
    IF IsFalsyResult(r.result)
    THEN [r EXCEPT !.main_pc = "exited", !.exit_status = 1]
    ELSE [r EXCEPT !.main_pc = "query"]

\* a query step that ends the process with status 1 when it raises
QueryStep_ExitsOnError(r, given, ok, next_pc) ==
    IF given /\ ~ok
    THEN [r EXCEPT !.main_pc = "exited", !.exit_status = 1, !.query_raised = TRUE]
    ELSE [r EXCEPT !.main_pc = next_pc,
                   !.exit_status = IF next_pc = "exited" THEN 0 ELSE @]

(* lines 580-666 and 669-703: an optional query step; what it raises is
   caught and printed, and after the last one main returns *)
QueryStep(r, given, ok, next_pc) ==
    [r EXCEPT !.main_pc = next_pc,
              !.query_raised = @ \/ (given /\ ~ok),
              !.exit_status = IF next_pc = "exited" THEN 0 ELSE @]

CheckResult(p) ==
    /\ run[p].pc = "done"
    /\ run[p].main_pc = "call"
    /\ run' = [run EXCEPT ![p] = CheckResultStep(run[p])]
    /\ UNCHANGED db

\* --query
RunQuery(p) ==
    /\ run[p].main_pc = "query"
    /\ \E given \in BOOLEAN, ok \in BOOLEAN :
         run' = [run EXCEPT ![p] = QueryStep(run[p], given, ok, "test_query")]
    /\ UNCHANGED db

\* --test-query
RunTestQuery(p) ==
    /\ run[p].main_pc = "test_query"
    /\ \E given \in BOOLEAN, ok \in BOOLEAN :
         run' = [run EXCEPT ![p] = QueryStep(run[p], given, ok, "exited")]
    /\ UNCHANGED db

\* process_document as main's call finds it: at its entry into Phase 4 with
\* a batch of at most one chunk or one of the two-chunk batches, or returned
\* from an earlier phase (lines 69-155) with None or with the document id
MainRuns ==
    {InitRun(chunks, "A") :
        chunks \in BatchesOfLen(0) \cup BatchesOfLen(1) \cup TwoDocBatches}
    \cup {Returned(InitRun(<<>>, "A"), value) : value \in {NoResult, "A"}}

InitMain ==
    /\ db \in PriorStores
    /\ \E r \in MainRuns : run = [p \in Procs |-> IF p = 1 THEN r ELSE IdleRun]

NextMain ==
    \/ Next
    \/ \E p \in Procs : CheckResult(p) \/ RunQuery(p) \/ RunTestQuery(p)

SpecMain == InitMain /\ [][NextMain]_vars

\* C17: once main has exited, its status is non-zero exactly when
\* process_document returned None, and it is 0 when process_document returned
\* a document id, also when a query step raised; main does not exit before
\* process_document has returned.
C17_ExitStatus ==
    \A p \in Procs :
        /\ run[p].main_pc # "call" => IsDone(run[p])
        /\ run[p].main_pc = "exited"
           => /\ run[p].exit_status # 0 <=> ReturnedNone(run[p])
              /\ ReturnedId(run[p]) => run[p].exit_status = 0
        /\ (run[p].main_pc # "exited" /\ run[p].main_pc # "call") => ReturnedId(run[p])

\* main has exited after process_document returned the document id and a
\* query step raised
C17_Witness ==
    \E p \in Procs :
        /\ run[p].main_pc = "exited"
        /\ ReturnedId(run[p])
        /\ run[p].query_raised
        /\ run[p].inserted_count >= 1

\* the insert_node calls of the run, in the order they were made
InsertCalls(r) == SelectSeq(r.log, LAMBDA call : call.op = "insert_node")

\* the number of node records the insert loop has dealt with
RecordsDone(r) ==
    IF CallsOf(r, "delete_nodes_by_document_id") = {} THEN 0
    ELSE IF r.pc = "insert" THEN r.idx - 1
    ELSE Len(r.db_nodes_with_embeddings)

\* the records among the first n that have an original_id and the embedding
\* flag, in the order of the list
GatedUpTo(r, n) ==
    SelectSeq(SubSeq(r.db_nodes_with_embeddings, 1, n),
              LAMBDA node : node.original_id # NoneVal /\ node.embedding_generated)

\* C18: the insert_node calls of a run are, one for one and in order, the
\* records the loop has dealt with that have an original_id and the embedding
\* flag, whatever the calls before returned or raised; once the loop is over
\* that is every such record of the list.
C18_InsertLoopContinues ==
    \A p \in Procs :
        LET calls == InsertCalls(run[p])
            gated == GatedUpTo(run[p], RecordsDone(run[p]))
        IN /\ Len(calls) = Len(gated)
           /\ \A i \in 1..Len(calls) : calls[i].source = gated[i].original_id
           /\ run[p].inserted_count + run[p].failed_count = RecordsDone(run[p])

\* a finished run whose first insert_node call raised and whose second wrote
\* its node
C18_Witness ==
    \E p \in Procs :
        /\ ReturnedId(run[p])
        /\ LET calls == InsertCalls(run[p])
           IN Len(calls) = 2 /\ ~calls[1].ok /\ calls[2].ok

\* the insert_node calls of the run that returned, in the order they were made
OkInsertCalls(r) == SelectSeq(r.log, LAMBDA call : call.op = "insert_node" /\ call.ok)

\* original_id_to_db_id_map is, entry for entry, the successful insert_node
\* calls of the run; every entry is the id of a stored node of the document
\* and the key of a valid chunk whose record was flagged
MapHoldsPersisted(r) ==
    LET calls == OkInsertCalls(r)
        map == r.original_id_to_db_id_map
    IN /\ Len(map) = Len(calls)
       /\ \A i \in 1..Len(map) :
             /\ map[i].k = calls[i].source
             /\ map[i].v = calls[i].target
             /\ \E n \in db.nodes : n.id = map[i].v /\ n.document_id = r.document_id
             /\ \E u \in 1..Len(r.enriched_chunks) :
                   /\ r.enriched_chunks[u].has_id /\ r.enriched_chunks[u].has_metadata
                   /\ r.enriched_chunks[u].id = map[i].k
             /\ \E k \in 1..Len(r.db_nodes_with_embeddings) :
                   /\ r.db_nodes_with_embeddings[k].original_id = map[i].k
                   /\ r.db_nodes_with_embeddings[k].embedding_generated

\* a step of a run that is past its insert loop leaves the map as it is
MapStable(p) ==
    run[p].pc \in {"parents", "exact", "fuzzyrefs", "return", "done"}
    => run'[p].original_id_to_db_id_map = run[p].original_id_to_db_id_map

\* C19: at every moment each entry of original_id_to_db_id_map is a
\* successful insert_node call of the run for that original_id with that
\* storage id, and a stored node; skipped, failed and discarded chunks have
\* no entry; and no step after the insert loop changes the map.
C19_MapHoldsOnlyPersisted ==
    /\ [](\A p \in Procs : MapHoldsPersisted(run[p]))
    /\ [][\A p \in Procs : MapStable(p)]_vars

\* a finished run with one entry in the map, one insert_node call that raised
\* and calls made after the insert loop
C19_Witness ==
    \E p \in Procs :
        /\ ReturnedId(run[p])
        /\ Len(run[p].original_id_to_db_id_map) = 1
        /\ \E i \in CallsOf(run[p], "insert_node") : ~run[p].log[i].ok
        /\ Len(run[p].enriched_chunks) = 2

(* --------------------- a chain of three chunks ------------------------ *)

\* three chunks, each the child of the one before it
ChainBatch ==
    <<[has_id |-> TRUE, id |-> 1, has_metadata |-> TRUE, hierarchy_path |-> <<TitleA>>,
       parent_id |-> NoneVal, related_sections |-> <<>>],
      [has_id |-> TRUE, id |-> 2, has_metadata |-> TRUE,
       hierarchy_path |-> <<TitleA, TitleB>>, parent_id |-> 1,
       related_sections |-> <<StrMention(TitleA)>>],
      [has_id |-> TRUE, id |-> 3, has_metadata |-> TRUE, hierarchy_path |-> <<>>,
       parent_id |-> 2, related_sections |-> <<>>]>>

\* process_document on the chain, or on the batch with a lookup
InitParents ==
    /\ db \in PriorStores
    /\ \E chunks \in {ChainBatch, MixedBatch} :
         run = [p \in Procs |-> IF p = 1 THEN InitRun(chunks, "A") ELSE IdleRun]

SpecParents == InitParents /\ [][Next]_vars

\* the update_node_parent calls of the run, in the order they were made
ParentCalls(r) == SelectSeq(r.log, LAMBDA call : call.op = "update_node_parent")

\* the number of map entries the parent-link loop has dealt with
EntriesDone(r) ==
    IF r.pc = "parents" THEN r.idx - 1
    ELSE IF r.pc \in {"exact", "fuzzyrefs", "return", "done"}
         THEN Len(r.original_id_to_db_id_map)
         ELSE 0

\* the declared parent of the chunk with this id, or None
DeclaredParent(r, original_id) ==
    LET u == CHOOSE u \in 1..Len(r.enriched_chunks) :
                 /\ r.enriched_chunks[u].has_id /\ r.enriched_chunks[u].has_metadata
                 /\ r.enriched_chunks[u].id = original_id
    IN r.enriched_chunks[u].parent_id

\* the entry's chunk declares a parent that has an entry of its own
LinksToInserted(r, entry) ==
    /\ DeclaredParent(r, entry.k) # NoneVal
    /\ \E i \in 1..Len(r.original_id_to_db_id_map) :
          r.original_id_to_db_id_map[i].k = DeclaredParent(r, entry.k)

\* the storage id of the entry's declared parent
ParentStorageId(r, entry) ==
    LET i == CHOOSE i \in 1..Len(r.original_id_to_db_id_map) :
                 r.original_id_to_db_id_map[i].k = DeclaredParent(r, entry.k)
    IN r.original_id_to_db_id_map[i].v

\* the entries among the first n whose chunk declares an inserted parent
LinkedUpTo(r, n) ==
    SelectSeq(SubSeq(r.original_id_to_db_id_map, 1, n),
              LAMBDA entry : LinksToInserted(r, entry))

\* C20: the update_node_parent calls of a run are, one for one and in order,
\* the inserted chunks dealt with so far whose declared parent_id has a map
\* entry, each with that entry as the parent, whatever the calls before
\* returned or raised; a chunk without parent_id or with a parent that was not
\* inserted has no call and its node keeps no parent.
C20_ParentLinks ==
    \A p \in Procs :
        LET r == run[p]
            calls == ParentCalls(r)
            linked == LinkedUpTo(r, EntriesDone(r))
        IN /\ Len(calls) = Len(linked)
           /\ \A i \in 1..Len(calls) :
                 /\ calls[i].source = linked[i].v
                 /\ calls[i].target = ParentStorageId(r, linked[i])
           /\ r.parent_links_set + r.parent_link_errors = Len(calls)
           /\ \A i \in 1..Len(r.original_id_to_db_id_map) :
                 ~LinksToInserted(r, r.original_id_to_db_id_map[i])
                 => \A n \in db.nodes :
                       n.id = r.original_id_to_db_id_map[i].v => n.parent_id = NoneVal

\* a finished run over the chain whose first update_node_parent call raised
\* and whose second set the parent of the third chunk's node
C20_Witness ==
    \E p \in Procs :
        /\ ReturnedId(run[p])
        /\ run[p].enriched_chunks = ChainBatch
        /\ LET calls == ParentCalls(run[p])
           IN /\ Len(calls) = 2 /\ ~calls[1].ok /\ calls[2].ok
              /\ \E n \in db.nodes : n.id = calls[2].source /\ n.parent_id = calls[2].target

(* ------------------------- batched fuzzy lookups ---------------------- *)

\* the find_nodes_by_path calls of the run, in the order they were made
LookupCalls(r) == SelectSeq(r.log, LAMBDA call : call.op = "find_nodes_by_path")

\* the path keys of the pending fuzzy set whose lookup has been made
KeysLookedUp(r) == r.paths_needing_fuzzy_lookup \ r.lookup_todo

\* the lookup call of the run for the path key, if it was made
LookupsOf(r, key) ==
    {i \in 1..Len(LookupCalls(r)) : LookupCalls(r)[i].key = WrapPattern(key)}

\* C21: the run's find_nodes_by_path calls are one call for each path key of
\* the pending fuzzy set dealt with so far, each with the key between two
\* wildcards and max_results 10; fuzzy_lookup_errors is the number of the calls
\* that raised, a key whose call raised has no entry in fuzzy_path_to_nodes_map,
\* and once the loop is over every key of the pending set has had its call,
\* whatever the calls before it did.
C21_FuzzyLookupBatching ==
    \A p \in Procs :
        LET r == run[p]
            calls == LookupCalls(r)
        IN /\ r.lookup_todo \subseteq r.paths_needing_fuzzy_lookup
           /\ Len(calls) = Cardinality(KeysLookedUp(r))
           /\ \A key \in KeysLookedUp(r) : Cardinality(LookupsOf(r, key)) = 1
           /\ \A i \in 1..Len(calls) :
                 /\ calls[i].max_results = 10
                 /\ \E key \in KeysLookedUp(r) : calls[i].key = <<WILD>> \o key \o <<WILD>>
           /\ r.fuzzy_lookup_errors = Cardinality({i \in 1..Len(calls) : ~calls[i].ok})
           /\ \A key \in DOMAIN r.fuzzy_path_to_nodes_map :
                 \E i \in LookupsOf(r, key) : calls[i].ok
           /\ r.pc \notin {"start", "resolve", "fuzzy"} => r.lookup_todo = {}

\* two chunks or mentions missed on the same path key and the run made one
\* lookup for it
C21_OneLookupForTwoMisses ==
    \E p \in Procs :
        /\ Len(LookupCalls(run[p])) = 1
        /\ run[p].lookup_todo = {}
        /\ MentionCount(run[p].enriched_chunks, 1) = 2
        /\ Len(run[p].exact_resolved_references) = 0
        /\ \A i \in 1..Len(run[p].enriched_chunks) :
              /\ IsValidChunk(run[p].enriched_chunks[i])
              /\ \A j \in 1..Len(run[p].enriched_chunks[i].related_sections) :
                    IsPathMention(run[p].enriched_chunks[i].related_sections[j])

\* a run whose first lookup raised and whose second lookup, for the other
\* pattern, returned candidates that were kept
C21_Witness ==
    \E p \in Procs :
        LET calls == LookupCalls(run[p])
        IN /\ Len(calls) = 2
           /\ ~calls[1].ok
           /\ calls[2].ok
           /\ run[p].fuzzy_lookup_errors = 1
           /\ Cardinality(DOMAIN run[p].fuzzy_path_to_nodes_map) = 1

(* ------------------------- mention classification --------------------- *)

\* the mentions the resolver scans: position i of original_id_to_chunk_map,
\* position j of that chunk's related_sections
ScannedMentions(r) ==
    {<<i, j>> \in (1..Len(r.original_id_to_chunk_map)) \X (1..MaxMentions) :
        j <= Len(r.original_id_to_chunk_map[i].v.related_sections)}

MentionAt(r, m) == r.original_id_to_chunk_map[m[1]].v.related_sections[m[2]]

SourceAt(r, m) == r.original_id_to_chunk_map[m[1]].k

\* the mention is a list or a string and its key is a key of pathIndex
IsHit(r, m) ==
    /\ MentionAt(r, m).kind \in {"list", "str"}
    /\ PathKey(MentionAt(r, m)) \in DOMAIN r.path_to_original_id_map

\* a hit on another chunk than the one that holds the mention
IsExactHit(r, m) ==
    IsHit(r, m) /\ r.path_to_original_id_map[PathKey(MentionAt(r, m))] # SourceAt(r, m)

\* a hit on the chunk that holds the mention
IsSelfHit(r, m) ==
    IsHit(r, m) /\ r.path_to_original_id_map[PathKey(MentionAt(r, m))] = SourceAt(r, m)

\* the mention is a list or a string and its key is no key of pathIndex
IsMiss(r, m) ==
    /\ MentionAt(r, m).kind \in {"list", "str"}
    /\ PathKey(MentionAt(r, m)) \notin DOMAIN r.path_to_original_id_map

\* the number of entries of the list that are the pair
Occurrences(list, pair) == Cardinality({i \in 1..Len(list) : list[i] = pair})

\* C22: exact_resolved_references holds one entry (source, target) for each
\* scanned list-or-string mention whose key hits pathIndex on another chunk
\* than its source, and nothing else: a hit on the source and a mention of
\* another shape leave no entry; the pending fuzzy set is the set of the keys
\* of the list-or-string mentions that miss, so that no key of pathIndex is in
\* it.
C22_MentionClassification ==
    \A p \in Procs :
        LET r == run[p]
            exact == r.exact_resolved_references
            hits == {m \in ScannedMentions(r) : IsExactHit(r, m)}
            pair(m) == <<SourceAt(r, m), r.path_to_original_id_map[PathKey(MentionAt(r, m))]>>
        IN /\ Len(exact) = Cardinality(hits)
           /\ \A m \in hits :
                 Occurrences(exact, pair(m)) = Cardinality({n \in hits : pair(n) = pair(m)})
           /\ \A i \in 1..Len(exact) : exact[i][1] # exact[i][2]
           /\ r.paths_needing_fuzzy_lookup
                 = {PathKey(MentionAt(r, m)) : m \in {n \in ScannedMentions(r) : IsMiss(r, n)}}
           /\ r.paths_needing_fuzzy_lookup \cap DOMAIN r.path_to_original_id_map = {}

\* a resolved run with a hit on another chunk and a hit on the source itself
C22_Witness ==
    \E p \in Procs :
        /\ run[p].pc \notin {"start", "idle"}
        /\ \E m \in ScannedMentions(run[p]) : IsExactHit(run[p], m)
        /\ \E m \in ScannedMentions(run[p]) : IsSelfHit(run[p], m)
        /\ Len(run[p].exact_resolved_references) = 1

\* a resolved run with a miss and a mention that is neither a list nor a string
C22_MissAndOtherShape ==
    \E p \in Procs :
        /\ run[p].pc \notin {"start", "idle"}
        /\ \E m \in ScannedMentions(run[p]) : IsMiss(run[p], m)
        /\ \E m \in ScannedMentions(run[p]) : ~IsPathMention(MentionAt(run[p], m))
        /\ Cardinality(run[p].paths_needing_fuzzy_lookup) = 1
        /\ run[p].exact_resolved_references = <<>>

(* --------------------------- reference endpoints ---------------------- *)

\* the insert_reference calls of the run, in the order they were made
ReferenceCalls(r) == SelectSeq(r.log, LAMBDA call : call.op = "insert_reference")

\* the storage ids the run's successful insert_node calls returned
InsertedIds(r) == {r.log[i].target : i \in OkCallsOf(r, "insert_node")}

\* the exact candidate has an end that has no storage id
HasMissingEnd(r, pair) ==
    \/ ~DictHas(r.original_id_to_db_id_map, pair[1])
    \/ ~DictHas(r.original_id_to_db_id_map, pair[2])

\* the call is the attempt for an exact candidate whose two ends have storage ids
FromExactCandidate(r, call) ==
    \E i \in 1..Len(r.exact_resolved_references) :
        LET pair == r.exact_resolved_references[i]
        IN /\ ~HasMissingEnd(r, pair)
           /\ call.source = DictVal(r.original_id_to_db_id_map, pair[1])
           /\ call.target = DictVal(r.original_id_to_db_id_map, pair[2])

\* the call is the attempt for a candidate node of the fuzzy pass
FromFuzzyCandidate(r, call) ==
    \E i \in 1..Len(FuzzyWork(r)) :
        /\ call.source = FuzzyWork(r)[i].source_db_id
        /\ call.target = FuzzyWork(r)[i].target_node.id

\* C23: both ends of every insert_reference call of a run, and so of every
\* row the run wrote, are values of original_id_to_db_id_map and were returned
\* by successful insert_node calls of the same run; an exact call stands for
\* an exact candidate whose two ends have storage ids, a fuzzy call for a
\* candidate node whose id is a storage id of the run.
C23_EndpointsOfThisRun ==
    \A p \in Procs :
        LET r == run[p]
            calls == ReferenceCalls(r)
        IN /\ DictValues(r.original_id_to_db_id_map) \subseteq InsertedIds(r)
           /\ \A i \in 1..Len(calls) :
                 /\ calls[i].source \in DictValues(r.original_id_to_db_id_map)
                 /\ calls[i].target \in DictValues(r.original_id_to_db_id_map)
                 /\ calls[i].type = ExactType => FromExactCandidate(r, calls[i])
                 /\ calls[i].type = FuzzyType => FromFuzzyCandidate(r, calls[i])
           /\ \A i \in 1..Len(db.refs) :
                 (\E j \in 1..Len(calls) : calls[j].ok /\ RowOf(calls[j]) = db.refs[i])
                     => /\ db.refs[i].source_node_id \in InsertedIds(r)
                        /\ db.refs[i].target_node_id \in InsertedIds(r)

\* a finished run that wrote a fuzzy row: the candidate carried a storage id
\* of the run
C23_Witness ==
    \E p \in Procs :
        /\ ReturnedId(run[p])
        /\ \E i \in 1..Len(ReferenceCalls(run[p])) :
              ReferenceCalls(run[p])[i].ok /\ ReferenceCalls(run[p])[i].type = FuzzyType
        /\ Len(db.refs) > 0

\* a finished run with an exact candidate one end of which was never inserted
\* and with no insert_reference call
C23_ExactCandidateSkipped ==
    \E p \in Procs :
        /\ ReturnedId(run[p])
        /\ \E i \in 1..Len(run[p].exact_resolved_references) :
              HasMissingEnd(run[p], run[p].exact_resolved_references[i])
        /\ ReferenceCalls(run[p]) = <<>>

\* a finished run with a fuzzy candidate whose id is no storage id of the run
\* and with no insert_reference call
C23_FuzzyCandidateSkipped ==
    \E p \in Procs :
        /\ ReturnedId(run[p])
        /\ \E i \in 1..Len(FuzzyWork(run[p])) :
              FuzzyWork(run[p])[i].target_node.id \notin InsertedIds(run[p])
        /\ ReferenceCalls(run[p]) = <<>>

(* ----------------------------- path collisions ------------------------ *)

\* the run has been through the mapper and the resolver
IsResolved(r) == r.pc \notin {"start", "resolve", "idle"}

\* the positions of the valid chunks of the batch with a hierarchy_path that
\* joins to the key
ChunksWithKey(r, key) ==
    {i \in 1..Len(r.enriched_chunks) :
        /\ r.enriched_chunks[i].has_id /\ r.enriched_chunks[i].has_metadata
        /\ r.enriched_chunks[i].hierarchy_path # <<>>
        /\ Join(r.enriched_chunks[i].hierarchy_path) = key}

\* those of them that claim the key: the id is truthy and the key is not the
\* sentinel
Claimants(r, key) ==
    {i \in ChunksWithKey(r, key) : r.enriched_chunks[i].id # NoneVal /\ key # UnknownPath}

PathKeys == {Join(path) : path \in HierarchyPaths \ {<<>>}}

\* the chunks of the batch that have an id have different ids
UniqueIds(r) ==
    \A i, j \in 1..Len(r.enriched_chunks) :
        /\ i # j
        /\ r.enriched_chunks[i].has_id /\ r.enriched_chunks[j].has_id
        => r.enriched_chunks[i].id # r.enriched_chunks[j].id

\* C24 as claimed: in a batch of chunks with different ids, a key that several
\* valid chunks share is mapped to the last of them in input order.
C24_LastWriterWinsClaim ==
    \A p \in Procs :
        IsResolved(run[p]) /\ UniqueIds(run[p]) =>
            \A key \in PathKeys :
                Cardinality(ChunksWithKey(run[p], key)) >= 2 =>
                    /\ key \in DOMAIN run[p].path_to_original_id_map
                    /\ run[p].path_to_original_id_map[key]
                          = run[p].enriched_chunks[MaxOf(ChunksWithKey(run[p], key))].id

\* C24: a key is in pathIndex exactly when a valid chunk with a truthy id has
\* it as its path and it is not the sentinel, and it is mapped to the last
\* such chunk in input order; a scanned mention of the key from another chunk
\* is an exact candidate to that last chunk and to no other chunk, and the
\* last chunk's own mention of the key leaves no candidate.
C24_LastClaimantWins ==
    \A p \in Procs :
        LET r == run[p]
            last(key) == r.enriched_chunks[MaxOf(Claimants(r, key))].id
        IN IsResolved(r) =>
              /\ DOMAIN r.path_to_original_id_map
                    = {key \in PathKeys : Claimants(r, key) # {}}
              /\ \A key \in DOMAIN r.path_to_original_id_map :
                    r.path_to_original_id_map[key] = last(key)
              /\ \A m \in ScannedMentions(r) :
                    IsPathMention(MentionAt(r, m)) /\ Claimants(r, PathKey(MentionAt(r, m))) # {} =>
                       LET key == PathKey(MentionAt(r, m))
                           others == {i \in ChunksWithKey(r, key) : r.enriched_chunks[i].id # last(key)}
                       IN /\ SourceAt(r, m) # last(key)
                             => Occurrences(r.exact_resolved_references,
                                            <<SourceAt(r, m), last(key)>>) >= 1
                          /\ Occurrences(r.exact_resolved_references, <<last(key), last(key)>>) = 0
                          /\ \A i \in others :
                                \A n \in 1..Len(r.exact_resolved_references) :
                                   r.exact_resolved_references[n][2] # r.enriched_chunks[i].id

\* two chunks with truthy ids share a path and each mentions it: the mention
\* of the first is the one exact candidate, to the second, and the mention of
\* the second is dropped
C24_Witness ==
    \E p \in Procs :
        /\ IsResolved(run[p])
        /\ \E key \in PathKeys :
              /\ Claimants(run[p], key) = {1, 2}
              /\ \A i \in {1, 2} :
                    /\ Len(run[p].enriched_chunks[i].related_sections) = 1
                    /\ IsPathMention(run[p].enriched_chunks[i].related_sections[1])
                    /\ PathKey(run[p].enriched_chunks[i].related_sections[1]) = key
        /\ run[p].exact_resolved_references
              = <<<<run[p].enriched_chunks[1].id, run[p].enriched_chunks[2].id>>>>
        /\ run[p].paths_needing_fuzzy_lookup = {}

(* ------------------------ what the resolver scans --------------------- *)

\* the resolver ran: the mapper produced a node record
ResolverRan(r) == IsResolved(r) /\ r.db_nodes_to_insert # <<>>

\* the list-or-string mentions of the batch: position i of enriched_chunks,
\* position j of that chunk's related_sections
BatchMentions(r) ==
    {<<i, j>> \in (1..Len(r.enriched_chunks)) \X (1..MaxMentions) :
        /\ j <= Len(r.enriched_chunks[i].related_sections)
        /\ IsPathMention(r.enriched_chunks[i].related_sections[j])}

BatchKey(r, m) == PathKey(r.enriched_chunks[m[1]].related_sections[m[2]])

\* the mention left its trace: its key is pending, or it hit pathIndex on its
\* own chunk, or there is an exact candidate to the chunk its key is mapped to
\* (from its chunk, when the chunk has an id)
Contributed(r, m) ==
    LET key == BatchKey(r, m)
        chunk == r.enriched_chunks[m[1]]
    IN \/ key \in r.paths_needing_fuzzy_lookup
       \/ /\ key \in DOMAIN r.path_to_original_id_map
          /\ \/ chunk.has_id /\ r.path_to_original_id_map[key] = chunk.id
             \/ \E n \in 1..Len(r.exact_resolved_references) :
                   /\ r.exact_resolved_references[n][2] = r.path_to_original_id_map[key]
                   /\ chunk.has_id => r.exact_resolved_references[n][1] = chunk.id

\* the mentions of the valid chunks
MappedMentions(r) == {m \in BatchMentions(r) : IsValidChunk(r.enriched_chunks[m[1]])}

\* C25 as claimed: once the resolver ran, every list-or-string mention of every
\* chunk of the input, mapped or not, has contributed.
C25_ScansEveryChunkClaim ==
    \A p \in Procs :
        ResolverRan(run[p]) /\ UniqueIds(run[p]) =>
            \A m \in BatchMentions(run[p]) : Contributed(run[p], m)

\* C25: once the resolver ran, every list-or-string mention of every chunk
\* the mapper kept (it has an id and a metadata payload) has contributed,
\* whether or not the chunk is persisted later; the chunks the mapper
\* discarded are not scanned: every pending key is the key of a mention of a
\* kept chunk and every exact candidate starts at a kept chunk.
C25_ScansMappedChunks ==
    \A p \in Procs :
        LET r == run[p]
        IN ResolverRan(r) /\ UniqueIds(r) =>
              /\ \A m \in MappedMentions(r) : Contributed(r, m)
              /\ r.paths_needing_fuzzy_lookup \subseteq {BatchKey(r, m) : m \in MappedMentions(r)}
              /\ \A n \in 1..Len(r.exact_resolved_references) :
                    \E m \in MappedMentions(r) :
                       /\ r.enriched_chunks[m[1]].id = r.exact_resolved_references[n][1]
                       /\ BatchKey(r, m) \in DOMAIN r.path_to_original_id_map
                       /\ r.path_to_original_id_map[BatchKey(r, m)]
                             = r.exact_resolved_references[n][2]

\* a finished run over a chunk without an id, whose mention left no trace, and
\* a kept chunk that was not persisted, whose mention is a pending key
C25_Witness ==
    \E p \in Procs :
        /\ IsDone(run[p])
        /\ ResolverRan(run[p]) /\ UniqueIds(run[p])
        /\ \E m \in BatchMentions(run[p]) :
              ~IsValidChunk(run[p].enriched_chunks[m[1]]) /\ ~Contributed(run[p], m)
        /\ \E m \in MappedMentions(run[p]) :
              /\ ~DictHas(run[p].original_id_to_db_id_map, run[p].enriched_chunks[m[1]].id)
              /\ BatchKey(run[p], m) \in run[p].paths_needing_fuzzy_lookup
        /\ CallsOf(run[p], "find_nodes_by_path") # {}

(* --------------------------- what the mapper keeps -------------------- *)

\* the chunks of the batch that have an id and a metadata payload, in input
\* order
KeptChunks(r) ==
    SelectSeq(r.enriched_chunks, LAMBDA chunk : chunk.has_id /\ chunk.has_metadata)

\* the run has been through the mapping loop
IsMapped(r) == r.pc \notin {"start", "idle"}

\* C26: after the mapping loop the node records are one per chunk with an id
\* and a metadata payload, in input order, each with the chunk's id, the
\* document id and the chunk's joined path, or "Unknown Path" when the chunk
\* has no hierarchy_path; original_id_to_chunk_map has the ids of those chunks
\* as its keys; every pathIndex entry is the path and id of one of them; and
\* "Unknown Path" is no key of pathIndex.  A chunk without id or metadata
\* leaves nothing and the chunks after it are mapped all the same.
C26_MapperDiscardsInvalid ==
    \A p \in Procs :
        LET r == run[p]
            kept == KeptChunks(r)
        IN IsMapped(r) =>
              /\ Len(r.db_nodes_to_insert) = Len(kept)
              /\ \A i \in 1..Len(kept) :
                    /\ r.db_nodes_to_insert[i].original_id = kept[i].id
                    /\ r.db_nodes_to_insert[i].document_id = r.document_id
                    /\ r.db_nodes_to_insert[i].path
                          = IF kept[i].hierarchy_path = <<>> THEN <<"Unknown Path">>
                            ELSE Join(kept[i].hierarchy_path)
              /\ DictKeys(r.original_id_to_chunk_map) = {kept[i].id : i \in 1..Len(kept)}
              /\ \A key \in DOMAIN r.path_to_original_id_map :
                    \E i \in 1..Len(kept) :
                       /\ kept[i].hierarchy_path # <<>>
                       /\ Join(kept[i].hierarchy_path) = key
                       /\ kept[i].id = r.path_to_original_id_map[key]
              /\ <<"Unknown Path">> \notin DOMAIN r.path_to_original_id_map

\* a run that went on past the mapper with a batch whose first chunk has no
\* id or no metadata and whose second chunk is valid and has no
\* hierarchy_path: one node record, with the sentinel path, and an empty
\* pathIndex
C26_Witness ==
    \E p \in Procs :
        /\ run[p].pc \notin {"start", "idle", "done"}
        /\ Len(run[p].enriched_chunks) = 2
        /\ ~IsValidChunk(run[p].enriched_chunks[1])
        /\ IsValidChunk(run[p].enriched_chunks[2])
        /\ run[p].enriched_chunks[2].hierarchy_path = <<>>
        /\ Len(run[p].db_nodes_to_insert) = 1
        /\ run[p].db_nodes_to_insert[1].path = UnknownPath
        /\ DOMAIN run[p].path_to_original_id_map = {}

(* -------------------------- edge kind and strength -------------------- *)

\* the call that a step of process p from the given position made, if it made
\* one, has the type and the strength (in tenths)
CallOfPassIs(p, pass, type, strength) ==
    run[p].pc = pass /\ Len(run'[p].log) > Len(run[p].log)
    => /\ run'[p].log[Len(run'[p].log)].op = "insert_reference"
       /\ run'[p].log[Len(run'[p].log)].type = type
       /\ run'[p].log[Len(run'[p].log)].strength = strength

\* every row of the store has one of the two kinds with its strength
RowsAreTyped ==
    \A i \in 1..Len(db.refs) :
        \/ db.refs[i].reference_type = "related_section_exact" /\ db.refs[i].strength = 9
        \/ db.refs[i].reference_type = "related_section_fuzzy" /\ db.refs[i].strength = 7

\* every insert_reference call of a run that succeeded is a row of the store
CallsAreRows ==
    \A p \in Procs :
        \A i \in OkCallsOf(run[p], "insert_reference") :
            \E n \in 1..Len(db.refs) : db.refs[n] = RowOf(run[p].log[i])

\* C27: every insert_reference call of the exact pass carries the type
\* "related_section_exact" and the strength 0.9, every call of the fuzzy pass
\* the type "related_section_fuzzy" and the strength 0.7; the rows of the
\* store are the rows of the calls that succeeded and none has another type
\* or strength.
C27_KindAndStrengthByPass ==
    /\ [](RowsAreTyped /\ CallsAreRows)
    /\ [][\A p \in Procs :
             /\ CallOfPassIs(p, "exact", "related_section_exact", 9)
             /\ CallOfPassIs(p, "fuzzyrefs", "related_section_fuzzy", 7)]_vars

\* a store with a row of the exact pass and a row of the fuzzy pass
C27_Witness ==
    /\ \E i \in 1..Len(db.refs) :
          db.refs[i].reference_type = ExactType /\ db.refs[i].strength = ExactStrength
    /\ \E i \in 1..Len(db.refs) :
          db.refs[i].reference_type = FuzzyType /\ db.refs[i].strength = FuzzyStrength
    /\ \E p \in Procs : ReturnedId(run[p]) /\ run[p].references_created = 2

(* -------------------------- materialisation counts -------------------- *)

\* the run made an insert_reference call for the pair
Attempted(r, source_db_id, target_db_id) ==
    \E i \in CallsOf(r, "insert_reference") :
        r.log[i].source = source_db_id /\ r.log[i].target = target_db_id

\* every exact candidate whose ends were inserted and differ had its attempt
ExactEdgesAttempted(r) ==
    \A n \in 1..Len(r.exact_resolved_references) :
        LET pair == r.exact_resolved_references[n]
        IN ~HasMissingEnd(r, pair)
           /\ DictVal(r.original_id_to_db_id_map, pair[1])
                 # DictVal(r.original_id_to_db_id_map, pair[2])
           => Attempted(r, DictVal(r.original_id_to_db_id_map, pair[1]),
                        DictVal(r.original_id_to_db_id_map, pair[2]))

\* every candidate of the fuzzy pass that is a node of the run other than the
\* source had its attempt
FuzzyEdgesAttempted(r) ==
    \A n \in 1..Len(FuzzyWork(r)) :
        LET item == FuzzyWork(r)[n]
        IN item.target_node.id \in DictValues(r.original_id_to_db_id_map)
           /\ item.target_node.id # item.source_db_id
           => Attempted(r, item.source_db_id, item.target_node.id)

\* C28: references_created is the number of the run's insert_reference calls
\* that succeeded and the size of inserted_reference_pairs, reference_errors
\* the number of those that raised, parent_links_set and parent_link_errors
\* the numbers of the update_node_parent calls that succeeded and that raised;
\* and a run that returned the document id has made an attempt for every edge
\* of the two passes, whatever the attempts before it did.
C28_MaterializationCounts ==
    \A p \in Procs :
        LET r == run[p]
        IN /\ r.references_created = Cardinality(OkCallsOf(r, "insert_reference"))
           /\ r.references_created = Cardinality(r.inserted_reference_pairs)
           /\ r.reference_errors
                 = Cardinality(CallsOf(r, "insert_reference") \ OkCallsOf(r, "insert_reference"))
           /\ r.parent_links_set = Cardinality(OkCallsOf(r, "update_node_parent"))
           /\ r.parent_link_errors
                 = Cardinality(CallsOf(r, "update_node_parent") \ OkCallsOf(r, "update_node_parent"))
           /\ ReturnedId(r) => ExactEdgesAttempted(r) /\ FuzzyEdgesAttempted(r)

\* a finished run whose first insert_reference call raised and whose second
\* call, for another edge, wrote its row
C28_Witness ==
    \E p \in Procs :
        LET calls == ReferenceCalls(run[p])
        IN /\ ReturnedId(run[p])
           /\ Len(calls) = 2
           /\ ~calls[1].ok /\ calls[2].ok
           /\ <<calls[1].source, calls[1].target>> # <<calls[2].source, calls[2].target>>
           /\ run[p].reference_errors = 1
           /\ run[p].references_created = 1

(* -------------------------------- termination ------------------------- *)

\* process_document has been called and has not returned: the run is at an
\* external call, so that a step of the run is possible
Running(p) == run[p].pc \notin {"idle", "done"}

\* every external call of a run returns or raises in the end, and the code
\* between two calls runs to the next call: weak fairness of Step(p), with
\* the enabling condition of Step(p) written out as Running(p)
Fairness == \A p \in Procs : []<>(~Running(p)) \/ []<><<Step(p)>>_vars

SpecLive == Init /\ [][Next]_vars /\ Fairness

\* the run is over: process_document returned the document id or None
IsTerminal(r) == r.pc = "done" /\ r.result \in {r.document_id, NoResult}

\* the phase the run is in, in the order of the code
PhaseRank(r) ==
    CASE r.pc \in {"idle", "start"} -> 0
      [] r.pc = "resolve" -> 1
      [] r.pc = "fuzzy" -> 2
      [] r.pc = "embed" -> 3
      [] r.pc = "clear" -> 4
      [] r.pc = "insert" -> 5
      [] r.pc = "parents" -> 6
      [] r.pc = "exact" -> 7
      [] r.pc = "fuzzyrefs" -> 8
      [] r.pc = "return" -> 9
      [] OTHER -> 10

\* how far the loop of the phase has come: the patterns looked up, or the
\* index of the loop
LoopRank(r) ==
    IF r.pc = "fuzzy" THEN Cardinality(r.paths_needing_fuzzy_lookup \ r.lookup_todo)
    ELSE IF r.pc \in {"insert", "parents", "exact", "fuzzyrefs"} THEN r.idx
    ELSE 0

\* the step took the run to a later phase, or further in the loop of its phase
MovedOn(r, r2) ==
    \/ PhaseRank(r2) > PhaseRank(r)
    \/ PhaseRank(r2) = PhaseRank(r) /\ LoopRank(r2) > LoopRank(r)

\* C29: every run that was started reaches a terminal state, in which it has
\* returned the document id or None, whatever calls raised on the way; and
\* every step of a run, also one whose call raised, takes the run to a later
\* phase or further in the loop of its phase: no call is made again.
C29_Termination ==
    /\ \A p \in Procs : run[p].pc # "idle" ~> IsTerminal(run[p])
    /\ [](\A p \in Procs : run[p].pc = "done" => IsTerminal(run[p]))
    /\ [][\A p \in Procs : run'[p] # run[p] => MovedOn(run[p], run'[p])]_vars

\* a run that is over after as many of its calls raised as may raise
C29_Witness ==
    \E p \in Procs :
        /\ IsTerminal(run[p])
        /\ Failures(run[p]) = MaxFailures
        /\ run[p].result = run[p].document_id

(* ---------------------- abort at the embedding gate ------------------- *)

\* the operations that write to the store
WritingOps ==
    {"delete_nodes_by_document_id", "insert_node", "update_node_parent", "insert_reference"}

\* the calls of the run that write to the store
WritingCalls(r) == {i \in 1..Len(r.log) : r.log[i].op \in WritingOps}

\* the run is past its embedding step
PastEmbedding(r) ==
    \/ r.pc \in {"clear", "insert", "parents", "exact", "fuzzyrefs", "return"}
    \/ r.pc = "done" /\ r.db_nodes_to_insert # <<>>

\* the records the embedding provider returned are the records of the full
\* node list, in its order
CoversFullList(r) ==
    /\ Len(r.db_nodes_with_embeddings) = Len(r.db_nodes_to_insert)
    /\ \A i \in 1..Len(r.db_nodes_to_insert) :
          /\ r.db_nodes_with_embeddings[i].original_id = r.db_nodes_to_insert[i].original_id
          /\ r.db_nodes_with_embeddings[i].path = r.db_nodes_to_insert[i].path

\* C30: a run that is past its embedding step has made exactly one
\* generate_node_embeddings call, and a run that is not has made none; a call
\* that returned did so for the full node list; a run whose call raised has
\* made no call that writes to the store, neither before nor after it, and
\* the store holds the nodes and the reference rows it held when the run
\* began; and no run writes to the store before its embedding call returned.
C30_AbortLeavesStoreUnchanged ==
    \A p \in Procs :
        LET r == run[p]
            calls == CallsOf(r, "generate_node_embeddings")
        IN /\ Cardinality(calls) = IF PastEmbedding(r) THEN 1 ELSE 0
           /\ (PastEmbedding(r) /\ ~EmbeddingCallRaised(r)) => CoversFullList(r)
           /\ EmbeddingCallRaised(r)
              => /\ WritingCalls(r) = {}
                 /\ db.nodes = r.store_at_start.nodes
                 /\ db.refs = r.store_at_start.refs
           /\ \A i \in WritingCalls(r) : \E j \in calls : j < i /\ r.log[j].ok
           /\ (r.pc \notin {"idle", "start"} /\ WritingCalls(r) = {})
              => db.nodes = r.store_at_start.nodes /\ db.refs = r.store_at_start.refs

\* a run for a document that has a node in the store returned None because
\* its embedding call raised, and the node is still there
C30_Witness ==
    \E p \in Procs :
        /\ ReturnedNone(run[p])
        /\ EmbeddingCallRaised(run[p])
        /\ Len(run[p].db_nodes_to_insert) = 2
        /\ \E n \in db.nodes : n.document_id = run[p].document_id
        /\ db.nodes = run[p].store_at_start.nodes

(* ------------------- a fatal run after a successful clear ------------- *)

\* the run's clear call returned
ClearSucceeded(r) == OkCallsOf(r, "delete_nodes_by_document_id") # {}

\* the store the run started from, without the nodes of its document and the
\* rows at them
StartWithoutDocument(r) == DeleteNodesByDocumentId(r.store_at_start, r.document_id)

\* C31: a run that returned None after its clear call succeeded has inserted
\* no node, and the store holds no node of the document: it holds the nodes
\* and rows it held at the start of the run less the document's, so what was
\* stored for the document before the run is gone and has not been put back.
C31_ZeroInsertNotRolledBack ==
    \A p \in Procs :
        (ReturnedNone(run[p]) /\ ClearSucceeded(run[p]))
        => /\ run[p].inserted_count = 0
           /\ run[p].failed_count > 0
           /\ OkCallsOf(run[p], "insert_node") = {}
           /\ NodesOfDocument(run[p]) = {}
           /\ db.nodes = StartWithoutDocument(run[p]).nodes
           /\ db.refs = StartWithoutDocument(run[p]).refs

\* a run for a document that had a stored node returned None after the clear
\* call succeeded and an insert_node call raised, and the node is gone
C31_Witness ==
    \E p \in Procs :
        /\ ReturnedNone(run[p])
        /\ ClearSucceeded(run[p])
        /\ \E n \in run[p].store_at_start.nodes : n.document_id = run[p].document_id
        /\ \E i \in CallsOf(run[p], "insert_node") : ~run[p].log[i].ok
        /\ NodesOfDocument(run[p]) = {}

(* ------------------ fuzzy candidates and the clear step --------------- *)

\* the ids of the nodes the store held for the run's document when the run
\* began
PreRunIds(r) ==
    {n.id : n \in {m \in r.store_at_start.nodes : m.document_id = r.document_id}}

\* the insert_reference calls of the fuzzy pass
FuzzyCalls(r) == {i \in CallsOf(r, "insert_reference") : r.log[i].type = FuzzyType}

\* the delete and insert_node calls of the run
ClearAndInsertCalls(r) ==
    CallsOf(r, "delete_nodes_by_document_id") \cup CallsOf(r, "insert_node")

\* C32: every find_nodes_by_path call of a run comes before its clear call
\* and its insert_node calls, and what it returned are nodes the store held
\* when the run began; so the candidates kept for the fuzzy pass are nodes
\* stored for the document before the run, and the target of every
\* insert_reference call of the fuzzy pass is both the id of such a node and
\* an id a successful insert_node call of this run returned. A run whose
\* insert_node calls were all given ids that had never been issued makes no
\* insert_reference call in its fuzzy pass.
C32_FuzzyCandidatesArePreClear ==
    \A p \in Procs :
        LET r == run[p]
        IN /\ \A i \in CallsOf(r, "find_nodes_by_path") :
                 /\ \A j \in ClearAndInsertCalls(r) : i < j
                 /\ \A t \in 1..Len(r.log[i].returned) :
                       r.log[i].returned[t] \in r.store_at_start.nodes
           /\ \A key \in DOMAIN r.fuzzy_path_to_nodes_map :
                 \A t \in 1..Len(r.fuzzy_path_to_nodes_map[key]) :
                    r.fuzzy_path_to_nodes_map[key][t].id \in PreRunIds(r)
           /\ \A i \in FuzzyCalls(r) :
                 /\ r.log[i].target \in PreRunIds(r)
                 /\ r.log[i].target \in InsertedIds(r)
           /\ FreshIds(r) => FuzzyCalls(r) = {}

\* a finished run wrote a fuzzy row whose target id was held by a node of the
\* document before the run and was given again to a node of this run
C32_Witness ==
    \E p \in Procs :
        /\ ReturnedId(run[p])
        /\ \E i \in FuzzyCalls(run[p]) :
              /\ run[p].log[i].ok
              /\ run[p].log[i].target \in PreRunIds(run[p])
              /\ \E j \in OkCallsOf(run[p], "insert_node") :
                    run[p].log[j].target = run[p].log[i].target /\ ~run[p].log[j].fresh
              /\ \E k \in 1..Len(db.refs) : db.refs[k] = RowOf(run[p].log[i])

\* a finished run whose ids were all new had candidates for its fuzzy pass,
\* made no insert_reference call for them and left no fuzzy row
C32_FreshRunWritesNone ==
    \E p \in Procs :
        /\ ReturnedId(run[p])
        /\ FreshIds(run[p])
        /\ FuzzyWork(run[p]) # <<>>
        /\ FuzzyCalls(run[p]) = {}
        /\ \A k \in 1..Len(db.refs) : db.refs[k].reference_type # FuzzyType

(* ----------------- a pair found by both reference passes -------------- *)

\* the insert_reference calls of the exact pass that returned
OkExactCalls(r) ==
    {i \in OkCallsOf(r, "insert_reference") : r.log[i].type = ExactType}

\* the exact pass and the fuzzy pass both have a candidate for the ordered
\* pair of storage ids
FoundByBoth(r, source_db_id, target_db_id) ==
    /\ \E e \in 1..Len(r.exact_resolved_references) :
          /\ DictGetOrNone(r.original_id_to_db_id_map, r.exact_resolved_references[e][1])
                = source_db_id
          /\ DictGetOrNone(r.original_id_to_db_id_map, r.exact_resolved_references[e][2])
                = target_db_id
    /\ \E k \in 1..Len(FuzzyWork(r)) :
          /\ FuzzyWork(r)[k].source_db_id = source_db_id
          /\ FuzzyWork(r)[k].target_node.id = target_db_id

\* C33: for every insert_reference call of the exact pass that returned, the
\* store holds one row for the call's ordered pair, of type
\* related_section_exact and strength 0.9; any other call of the run for the
\* pair is an earlier call of the exact pass that raised, so the fuzzy pass
\* makes no call for the pair. The fuzzy pass makes a call for a pair, and so
\* writes a row for it, only if no call of the exact pass for the pair
\* returned.
C33_ExactBeforeFuzzy ==
    \A p \in Procs :
        LET r == run[p]
        IN /\ \A i \in OkExactCalls(r) :
                 /\ \A k \in RowsBetween(r.log[i].source, r.log[i].target) :
                       db.refs[k] = RefRow(r.log[i].source, r.log[i].target,
                                           ExactType, ExactStrength)
                 /\ Cardinality(RowsBetween(r.log[i].source, r.log[i].target)) = 1
                 /\ \A j \in CallsOf(r, "insert_reference") \ {i} :
                       SamePairCalls(r, i, j)
                       => j < i /\ ~r.log[j].ok /\ r.log[j].type = ExactType
           /\ \A j \in FuzzyCalls(r) :
                 \A i \in OkExactCalls(r) : ~SamePairCalls(r, i, j)

\* a finished run in which both passes had a candidate for the same pair, the
\* call of the exact pass returned, and the pair's one row is the exact row
C33_Witness ==
    \E p \in Procs :
        /\ ReturnedId(run[p])
        /\ \E i \in OkExactCalls(run[p]) :
              /\ FoundByBoth(run[p], run[p].log[i].source, run[p].log[i].target)
              /\ \A k \in RowsBetween(run[p].log[i].source, run[p].log[i].target) :
                    db.refs[k].reference_type = ExactType
              /\ FuzzyCalls(run[p]) = {}

\* a finished run in which both passes had a candidate for the same pair, the
\* call of the exact pass raised, and the fuzzy pass wrote the pair's row
C33_FuzzyAfterFailedExact ==
    \E p \in Procs :
        /\ ReturnedId(run[p])
        /\ \E j \in FuzzyCalls(run[p]) :
              /\ run[p].log[j].ok
              /\ FoundByBoth(run[p], run[p].log[j].source, run[p].log[j].target)
              /\ \E i \in CallsOf(run[p], "insert_reference") :
                    /\ SamePairCalls(run[p], i, j)
                    /\ run[p].log[i].type = ExactType /\ ~run[p].log[i].ok
              /\ \A k \in RowsBetween(run[p].log[j].source, run[p].log[j].target) :
                    db.refs[k].reference_type = FuzzyType

(* --------------------------- insert accounting ------------------------ *)

\* the run is past its insert loop and the check that follows it
InsertPhaseEnded(r) ==
    /\ CallsOf(r, "delete_nodes_by_document_id") # {}
    /\ r.pc \in {"parents", "exact", "fuzzyrefs", "return", "done"}

\* the records of the list that the loop skipped without a store call
SkippedRecords(r) ==
    {k \in 1..Len(r.db_nodes_with_embeddings) : ~IsGated(r.db_nodes_with_embeddings[k])}

\* the insert_node calls of the run that raised
FailedInsertCalls(r) == CallsOf(r, "insert_node") \ OkCallsOf(r, "insert_node")

\* C34: once the insert loop of a run is over, inserted_count + failed_count
\* is the number of node records, inserted_count is the number of
\* insert_node calls that returned, failed_count is the number of skipped
\* records plus the number of insert_node calls that raised, and, the chunk
\* ids being different, inserted_count is the number of entries of
\* original_id_to_db_id_map; a run with inserted_count = 0 then has
\* failed_count > 0 and has returned None.
C34_InsertAccounting ==
    \A p \in Procs :
        LET r == run[p]
        IN InsertPhaseEnded(r)
           => /\ Len(r.db_nodes_with_embeddings) = Len(r.db_nodes_to_insert)
              /\ Len(r.db_nodes_to_insert) >= 1
              /\ r.inserted_count + r.failed_count = Len(r.db_nodes_to_insert)
              /\ r.inserted_count = Cardinality(OkCallsOf(r, "insert_node"))
              /\ r.failed_count = Cardinality(SkippedRecords(r))
                                     + Cardinality(FailedInsertCalls(r))
              /\ UniqueIds(r) => r.inserted_count = Len(r.original_id_to_db_id_map)
              /\ r.inserted_count = 0 => r.failed_count > 0 /\ ReturnedNone(r)

\* a run over two records of chunks with different ids is past its insert
\* loop with one record inserted and one insert_node call that raised
C34_Witness ==
    \E p \in Procs :
        /\ InsertPhaseEnded(run[p])
        /\ UniqueIds(run[p])
        /\ Len(run[p].db_nodes_to_insert) = 2
        /\ run[p].inserted_count = 1
        /\ run[p].failed_count = 1
        /\ Cardinality(FailedInsertCalls(run[p])) = 1
        /\ Len(run[p].original_id_to_db_id_map) = 1

\* a run over two records returned None after an insert loop that skipped one
\* record and whose one insert_node call raised
C34_NothingInserted ==
    \E p \in Procs :
        /\ InsertPhaseEnded(run[p])
        /\ ReturnedNone(run[p])
        /\ run[p].inserted_count = 0
        /\ run[p].failed_count = 2
        /\ Cardinality(SkippedRecords(run[p])) = 1
        /\ Cardinality(FailedInsertCalls(run[p])) = 1

(* ------------------------------ falsy chunk ids ----------------------- *)

\* the chunks of the batch that have an "id" key with a falsy value, and a
\* metadata payload
FalsyIdPositions(r) ==
    {u \in 1..Len(r.enriched_chunks) :
        /\ r.enriched_chunks[u].has_id /\ r.enriched_chunks[u].has_metadata
        /\ r.enriched_chunks[u].id = NoneVal}

\* the node records whose original_id is falsy
FalsyIdRecords(r) ==
    {k \in 1..Len(r.db_nodes_to_insert) : r.db_nodes_to_insert[k].original_id = NoneVal}

\* the id is the storage id of a chunk with a truthy id
IsStorageIdOfTruthy(r, db_id) ==
    \E e \in 1..Len(r.original_id_to_db_id_map) :
        /\ r.original_id_to_db_id_map[e].v = db_id
        /\ r.original_id_to_db_id_map[e].k # NoneVal

\* the update_node_parent and insert_reference calls of the run
LinkCalls(r) == CallsOf(r, "update_node_parent") \cup CallsOf(r, "insert_reference")

\* C35: in a run that has mapped its batch, every chunk with an "id" key of
\* falsy value (and metadata) has its node record and the batch has an
\* original_id_to_chunk_map entry under that id, but no entry of
\* path_to_original_id_map carries a falsy id; no insert_node call is made
\* for a record with a falsy original_id, and once the insert loop is over
\* each such record is counted in failed_count; no entry of
\* original_id_to_db_id_map has a falsy key, so both ends of every
\* update_node_parent and insert_reference call are storage ids of chunks
\* with truthy ids.
C35_FalsyIdsAreMissing ==
    \A p \in Procs :
        LET r == run[p]
        IN r.pc \notin {"idle", "start"}
           => /\ Cardinality(FalsyIdRecords(r)) = Cardinality(FalsyIdPositions(r))
              /\ \A u \in FalsyIdPositions(r) :
                    /\ DictHas(r.original_id_to_chunk_map, NoneVal)
                    /\ \E k \in FalsyIdRecords(r) :
                          r.db_nodes_to_insert[k].path = PathStr(r.enriched_chunks[u])
              /\ \A key \in DOMAIN r.path_to_original_id_map :
                    r.path_to_original_id_map[key] # NoneVal
              /\ \A i \in CallsOf(r, "insert_node") : r.log[i].source # NoneVal
              /\ InsertPhaseEnded(r)
                 => r.failed_count >= Cardinality(FalsyIdRecords(r))
                                         + Cardinality(FailedInsertCalls(r))
              /\ ~DictHas(r.original_id_to_db_id_map, NoneVal)
              /\ \A i \in LinkCalls(r) :
                    /\ IsStorageIdOfTruthy(r, r.log[i].source)
                    /\ IsStorageIdOfTruthy(r, r.log[i].target)

\* a finished run over a chunk with a falsy id, a path and a mention that
\* resolved exactly, and a second chunk that was inserted: the first chunk's
\* record had its embedding and was counted as failed, and its exact
\* candidate got no insert_reference call
C35_Witness ==
    \E p \in Procs :
        /\ ReturnedId(run[p])
        /\ FalsyIdPositions(run[p]) = {1}
        /\ PathStr(run[p].enriched_chunks[1]) # UnknownPath
        /\ run[p].db_nodes_with_embeddings[1].embedding_generated
        /\ run[p].failed_count = 1
        /\ run[p].inserted_count = 1
        /\ \E e \in 1..Len(run[p].exact_resolved_references) :
              run[p].exact_resolved_references[e][1] = NoneVal
        /\ CallsOf(run[p], "insert_reference") = {}

====
